---- MODULE Spec2Model ----
(***************************************************************************)
(* A model of libby: the Direct-Address (ZeroMQ ROUTER/DEALER) transport,  *)
(* the Broker (RabbitMQ) transport's lifecycle, and the Peer Runtime       *)
(* (Libby) that owns one transport and an optional discovery timer.        *)
(*                                                                         *)
(* Threads: the sender threads call ZmqTransport.send concurrently; one    *)
(* controlling thread ("main") makes the lifecycle calls (start, stop,     *)
(* add_peer, Libby.start, Libby.stop) one after another; every start()     *)
(* spawns a receive loop thread.                                           *)
(***************************************************************************)
EXTENDS Integers, Sequences, FiniteSets, TLC

\* ------------------------------------------------------------------ bounds
\* calls made on one transport: send, add_peer, start, stop
MaxOps == 4
\* frames a DEALER queues for a peer that never drains them (libzmq's
\* ZMQ_SNDHWM, 1000 by default, scaled down)
SndHwm == 1
\* the largest timeout_s and poll_s of a wait_for_key call, in ticks
MaxTimeout == 3
MaxPoll == 2
\* messages published to one peer's queue
MaxMsgs == 1
\* losses of a connection to the broker (network drops, forced closes, outages)
MaxLoss == 1

\* ------------------------------------------------------------- vocabulary
Senders == {"t1", "t2"}
PeerIds == {"P", "Q"}
\* dict(address_book) keeps the caller's insertion order
PeerOrder == <<"P", "Q">>
None == "None"
\* tcp_up: a peer is listening and drains the pipe; tcp_down: well formed,
\* nobody listening (connect succeeds, the pipe fills up); malformed:
\* zmq's connect raises ZMQError(EINVAL)
Endpoints == {"tcp_up", "tcp_down", "malformed"}
Backends == {"zmq", "rabbitmq"}
Free == "free"

VARIABLES
    backend,      \* which transport the Peer Runtime owns
    \* ---- ZmqTransport fields
    book,         \* _book: peer id -> endpoint or None
    bookOrder,    \* insertion order of _book's keys
    dealers,      \* _dealers: peer id -> socket id, 0 for absent
    socks,        \* every DEALER socket created so far
    send_lock,    \* _send_lock: its holder, or Free
    stopEv,       \* _stop (threading.Event)
    rx_thread,    \* _rx_thread: index of the latest receive loop, 0 for None
    router,       \* _router: "open" or "closed"
    registered,   \* _router is registered with _poller
    inbox,        \* frames waiting at the ROUTER (one at a time)
    \* ---- threads
    pc,           \* sender thread -> position in send()
    loc,          \* sender thread -> locals of send()
    last,         \* sender thread -> its latest send() call and how it ended
    att,          \* sender thread -> peers its latest broadcast attempted
    nsent,        \* send() calls made so far
    rxpc,         \* receive loop -> position in _rx_loop
    mpc,          \* main thread: position in stop()
    mres,         \* main thread: how the latest transport call ended
    joined,       \* main thread: how the join in the running stop() ended
    via,          \* main thread: the running stop() was called by Libby.stop
    nstart, nstop, nadd,
    \* ---- RabbitMQTransport fields (lifecycle)
    r_stop,       \* _stop
    r_rx,         \* _rx_thread: "none", "running", "blocked", "done"
    r_channel,    \* _send_channel: "open" or "closed"
    r_connection, \* _send_connection: "open" or "closed"
    r_pc,         \* main thread: position in RabbitMQTransport.stop
    \* ---- Libby fields
    disco,        \* _disco: "none", "running", "stopped"
    lpc,          \* main thread: position in Libby.stop
    llog,         \* what the latest Libby.stop invoked, in order
    lres,         \* "started" after Libby.start; how the latest Libby.stop ended
    \* ---- wait_for_key
    now,          \* time.time(), in ticks
    knows,        \* knows_key(peer, key)
    knownAt,      \* the tick at which knows_key became true, -1 before
    w_fn,         \* which call is running: wait_for_key or wait_for_peer
    w_pc,         \* position in the running call
    w_timeout,    \* timeout_s
    w_poll,       \* poll_s
    w_called,     \* the tick of the call
    w_deadline,   \* deadline
    w_wake,       \* when the running sleep ends
    w_result,     \* the returned value
    \* ---- the broker, as seen from one peer's queue libby.peer.<id>
    b_up,         \* the broker is reachable
    b_conns,      \* receive connections the broker holds open
    link,         \* receive connection -> "none", "up" or "dead" (the socket)
    q_exists,     \* the queue is declared
    q_ready,      \* messages ready in the queue
    q_unacked,    \* message -> the connection it is out on unacknowledged, 0 if none
    q_consumers,  \* connections with a consumer registered on the queue
    q_acked,      \* message -> acknowledgements the broker recorded
    pub,          \* messages published to the peer so far
    nloss,        \* connection losses so far
    nconn,        \* receive connections opened so far
    \* ---- RabbitMQTransport: the consume loop
    c_pc,         \* position in _rx_loop
    c_conn,       \* recv_conn: the loop's connection, 0 for None
    c_buf,        \* deliveries received on recv_conn, not yet dispatched
    c_cur,        \* the message message_callback is handling, 0 if none
    c_cb,         \* _cb is set (on_receive was called)
    c_out,        \* how the latest receive callback ended
    handed,       \* message -> times it was handed to message_callback
    calls,        \* message -> times it was passed to the receive callback
    acks,         \* message -> basic_ack calls made for it
    acksLost,     \* message -> basic_ack calls made on a lost connection
    \* ---- RabbitMQTransport: send
    r_lock,       \* _send_lock: its holder, or Free
    p_link,       \* the socket of the publish connection: "up" or "dead"
    s_pc,         \* sender thread -> position in send()
    s_cur,        \* sender thread -> the frame its running send() was given
    s_last,       \* sender thread -> its latest finished send() and how it ended
    published,    \* what the broker was given by basic_publish
    dropped,      \* frames dropped at the open check
    nframe,       \* send() calls made so far
    \* ---- the broker's exchanges and every peer's queue
    declared,     \* peers whose topology is declared
    binds,        \* the bindings of queues to exchanges
    queue,        \* peer -> the messages in its queue libby.peer.<id>
    routed,       \* published messages the broker has routed
    got,          \* peer -> what its receive callback was invoked with
    \* ---- two ZmqTransport peers, A and B: A's DEALER for B and B's ROUTER
    a_dealers,    \* A's _dealers: the IDENTITY of its DEALER for B, <<>> if absent
    a_log,        \* the send() calls A made for B, in order
    wire,         \* the multipart messages waiting at B's ROUTER
    b_pc,         \* B's _rx_loop: its position
    b_parts,      \* B's _rx_loop: parts
    b_got,        \* what B's receive callback was invoked with, in order
    \* ---- building a Libby: the factories and __init__
    k_call,       \* which constructor or factory was called
    k_pc,         \* position in the call
    k_args,       \* the arguments Libby.__init__ runs with
    k_transport,  \* the transport: "none", "given" or "started"
    k_served,     \* key -> the responder proto.serve registered, None if none
    k_log,        \* the announcer's and the protocol's calls made so far
    k_res,        \* how the call ended
    h_res,        \* how the latest hello() ended
    \* ---- LibbyDaemon
    services,     \* the dict bound to `services` in a class body: key -> handler
    topics,       \* the dict bound to `topics` in a class body: topic -> handler
    m_reg,        \* daemon -> None without self.libby, else what it registered
    ad_in,        \* what the user handler did in the latest responder call
    ad_res        \* how the latest responder call ended

zvars == <<book, bookOrder, dealers, socks, send_lock, stopEv, rx_thread, router,
           registered, inbox, pc, loc, last, att, nsent, rxpc, mpc, mres, joined,
           via, nstart, nstop, nadd>>
rvars == <<r_stop, r_rx, r_channel, r_connection, r_pc>>
lvars == <<disco, lpc, llog, lres>>
wvars == <<now, knows, knownAt, w_fn, w_pc, w_timeout, w_poll, w_called, w_deadline,
           w_wake, w_result>>
bvars == <<b_up, b_conns, link, q_exists, q_ready, q_unacked, q_consumers, q_acked,
           pub, nloss, nconn>>
cvars == <<c_pc, c_conn, c_buf, c_cur, c_cb, c_out, handed, calls, acks, acksLost>>
pvars == <<r_lock, p_link, s_pc, s_cur, s_last, published, dropped, nframe>>
qvars == <<declared, binds, queue, routed, got>>
dvars == <<a_dealers, a_log, wire, b_pc, b_parts, b_got>>
kvars == <<k_call, k_pc, k_args, k_transport, k_served, k_log, k_res, h_res>>
mvars == <<services, topics, m_reg, ad_in, ad_res>>
xvars == <<bvars, cvars>>
vars == <<backend, zvars, rvars, lvars, wvars, xvars, pvars, qvars, dvars, kvars, mvars>>

\* ------------------------------------------------------------ ZmqTransport

NoLoc == [p |-> None, ep |-> None, d |-> 0, bi |-> 0, bsize |-> 0]
NoCall == [kind |-> "none", dest |-> None, res |-> "none"]

\* the keys of _book, in insertion order
KeysInOrder(bk) == SelectSeq(PeerOrder, LAMBDA p : bk[p] # None)

\* a send that forgets the check for an unknown peer
UnknownPeer_never(bk, p) == FALSE

\* `if not endpoint: return`
UnknownPeer(bk, p) == bk[p] = None

\* s.connect(endpoint) raises for an endpoint zmq cannot parse
ConnectRaises(ep) == ep \notin {"tcp_up", "tcp_down"}

\* a _new_dealer that connects to a fixed endpoint, not the one it is given
NewDealerSocket_default(p, ep) ==
    [dest |-> p, ep |-> "tcp_up", open |-> TRUE, used |-> FALSE, queued |-> 0]

\* the socket _new_dealer returns
NewDealerSocket(p, ep) == [dest |-> p, ep |-> ep, open |-> TRUE, used |-> FALSE, queued |-> 0]

\* dealer.send(frame) with the default ZMQ_SNDTIMEO of -1 waits while the pipe
\* is full; only a listening peer empties it
SendBlocks(s) == s.open /\ s.ep = "tcp_down" /\ s.queued >= SndHwm

\* dealer.send(frame) went through: the frame is in the pipe, which a listening
\* peer empties
Written(s) == [s EXCEPT !.used = TRUE, !.queued = IF s.ep = "tcp_down" THEN @ + 1 ELSE @]

\* s.close(0): linger 0 discards what is queued
Closed(s) == [s EXCEPT !.open = FALSE, !.queued = 0]

\* a lookup that never finds the cached socket
CachedDealer_miss(p) == 0

\* self._dealers.get(peer_id): 0 stands for None
CachedDealer(p) == dealers[p]

\* the sockets _dealers holds
Cached == {dealers[p] : p \in PeerIds} \ {0}

\* live connections: created and not closed
Live(p) == {i \in 1..Len(socks) : socks[i].dest = p /\ socks[i].open}

zBook == <<book, bookOrder>>
zRecv == <<stopEv, rx_thread, router, registered, inbox, rxpc>>
zMain == <<mpc, mres, joined, via, nstart, nstop, nadd>>
others == <<backend, rvars, lvars, wvars, xvars, pvars, qvars, dvars, kvars, mvars>>

ZmqUp == backend = "zmq"

\* calls made so far
Ops == nsent + nadd + nstart + nstop + nframe

\* the call returns (or raises): the thread is idle again
Return(t, how) ==
    /\ pc' = [pc EXCEPT ![t] = "idle"]
    /\ loc' = [loc EXCEPT ![t] = NoLoc]
    /\ last' = [last EXCEPT ![t].res = how]

\* `with self._send_lock:` entered at once when the lock is free, else waited for
Acquire(t, waiting, entered) ==
    IF send_lock = Free
    THEN /\ send_lock' = t
         /\ pc' = [pc EXCEPT ![t] = entered]
    ELSE /\ send_lock' = send_lock
         /\ pc' = [pc EXCEPT ![t] = waiting]

\* send("peer:<p>", frame), lines 86-92: the lookups
SendPeer(t, p) ==
    /\ ZmqUp /\ pc[t] = "idle" /\ Ops < MaxOps
    /\ nsent' = nsent + 1
    /\ att' = [att EXCEPT ![t] = {}]
    /\ IF UnknownPeer(book, p)
       THEN /\ last' = [last EXCEPT ![t] = [kind |-> "peer", dest |-> p, res |-> "dropped"]]
            /\ UNCHANGED <<pc, loc, send_lock>>
       ELSE /\ last' = [last EXCEPT ![t] = [kind |-> "peer", dest |-> p, res |-> "pending"]]
            /\ loc' = [loc EXCEPT ![t] = [NoLoc EXCEPT !.p = p, !.ep = book[p], !.d = CachedDealer(p)]]
            /\ IF CachedDealer(p) = 0
               THEN pc' = [pc EXCEPT ![t] = "u_new"] /\ send_lock' = send_lock
               ELSE Acquire(t, "u_lock", "u_send")
    /\ UNCHANGED <<dealers, socks, zBook, zRecv, zMain, others>>

\* line 93: dealer = self._new_dealer(peer_id, endpoint)
UNew(t) ==
    /\ pc[t] = "u_new"
    /\ IF ConnectRaises(loc[t].ep)
       THEN Return(t, "raised") /\ socks' = socks
       ELSE /\ socks' = Append(socks, NewDealerSocket(loc[t].p, loc[t].ep))
            /\ loc' = [loc EXCEPT ![t].d = Len(socks) + 1]
            /\ pc' = [pc EXCEPT ![t] = "u_store"]
            /\ last' = last
    /\ UNCHANGED <<dealers, send_lock, att, nsent, zBook, zRecv, zMain, others>>

\* line 94: self._dealers[peer_id] = dealer, then line 95 takes the lock
UStore(t) ==
    /\ pc[t] = "u_store"
    /\ dealers' = [dealers EXCEPT ![loc[t].p] = loc[t].d]
    /\ Acquire(t, "u_lock", "u_send")
    /\ UNCHANGED <<socks, loc, last, att, nsent, zBook, zRecv, zMain, others>>

\* line 95: a thread waiting for _send_lock gets it
ULock(t) ==
    /\ pc[t] = "u_lock" /\ send_lock = Free
    /\ send_lock' = t
    /\ pc' = [pc EXCEPT ![t] = "u_send"]
    /\ UNCHANGED <<dealers, socks, loc, last, att, nsent, zBook, zRecv, zMain, others>>

\* line 96: dealer.send(frame) under the lock; a closed socket raises
\* ZMQError(ENOTSOCK), a full pipe blocks
USend(t) ==
    /\ pc[t] = "u_send"
    /\ ~SendBlocks(socks[loc[t].d])
    /\ send_lock' = Free
    /\ IF socks[loc[t].d].open
       THEN /\ socks' = [socks EXCEPT ![loc[t].d] = Written(@)]
            /\ Return(t, "sent")
       ELSE /\ socks' = socks
            /\ Return(t, "raised")
    /\ UNCHANGED <<dealers, att, nsent, zBook, zRecv, zMain, others>>

\* send("broadcast:*", frame), lines 99-101: take the lock, start iterating
SendBroadcast(t) ==
    /\ ZmqUp /\ pc[t] = "idle" /\ Ops < MaxOps
    /\ nsent' = nsent + 1
    /\ att' = [att EXCEPT ![t] = {}]
    /\ last' = [last EXCEPT ![t] = [kind |-> "broadcast", dest |-> None, res |-> "pending"]]
    /\ loc' = [loc EXCEPT ![t] = [NoLoc EXCEPT !.bsize = Len(bookOrder)]]
    /\ Acquire(t, "b_lock", "b_next")
    /\ UNCHANGED <<dealers, socks, zBook, zRecv, zMain, others>>

BLock(t) ==
    /\ pc[t] = "b_lock" /\ send_lock = Free
    /\ send_lock' = t
    /\ pc' = [pc EXCEPT ![t] = "b_next"]
    /\ loc' = [loc EXCEPT ![t].bsize = Len(bookOrder)]
    /\ UNCHANGED <<dealers, socks, last, att, nsent, zBook, zRecv, zMain, others>>

\* lines 101-103: the dict iterator's next item (RuntimeError when the dict
\* changed size), then dealer = self._dealers.get(peer_id)
BNext(t) ==
    /\ pc[t] = "b_next"
    /\ IF Len(bookOrder) # loc[t].bsize
       THEN /\ Return(t, "raised") /\ send_lock' = Free /\ att' = att
       ELSE IF loc[t].bi = Len(bookOrder)
       THEN /\ Return(t, "sent") /\ send_lock' = Free /\ att' = att
       ELSE LET p == bookOrder[loc[t].bi + 1] IN
            /\ loc' = [loc EXCEPT ![t] = [p |-> p, ep |-> book[p], d |-> CachedDealer(p),
                                          bi |-> loc[t].bi + 1, bsize |-> loc[t].bsize]]
            /\ att' = [att EXCEPT ![t] = @ \cup {p}]
            /\ pc' = [pc EXCEPT ![t] = IF CachedDealer(p) = 0 THEN "b_new" ELSE "b_send"]
            /\ UNCHANGED <<send_lock, last>>
    /\ UNCHANGED <<dealers, socks, nsent, zBook, zRecv, zMain, others>>

\* line 104: dealer = self._new_dealer(peer_id, endpoint); nothing catches
BNew(t) ==
    /\ pc[t] = "b_new"
    /\ IF ConnectRaises(loc[t].ep)
       THEN Return(t, "raised") /\ socks' = socks /\ send_lock' = Free
       ELSE /\ socks' = Append(socks, NewDealerSocket(loc[t].p, loc[t].ep))
            /\ loc' = [loc EXCEPT ![t].d = Len(socks) + 1]
            /\ pc' = [pc EXCEPT ![t] = "b_store"]
            /\ UNCHANGED <<last, send_lock>>
    /\ UNCHANGED <<dealers, att, nsent, zBook, zRecv, zMain, others>>

\* line 105: self._dealers[peer_id] = dealer
BStore(t) ==
    /\ pc[t] = "b_store"
    /\ dealers' = [dealers EXCEPT ![loc[t].p] = loc[t].d]
    /\ pc' = [pc EXCEPT ![t] = "b_send"]
    /\ UNCHANGED <<socks, send_lock, loc, last, att, nsent, zBook, zRecv, zMain, others>>

\* line 106: dealer.send(frame), still inside the loop and the lock
BSend(t) ==
    /\ pc[t] = "b_send"
    /\ ~SendBlocks(socks[loc[t].d])
    /\ IF socks[loc[t].d].open
       THEN /\ socks' = [socks EXCEPT ![loc[t].d] = Written(@)]
            /\ pc' = [pc EXCEPT ![t] = "b_next"]
            /\ UNCHANGED <<send_lock, loc, last>>
       ELSE /\ socks' = socks
            /\ send_lock' = Free
            /\ Return(t, "raised")
    /\ UNCHANGED <<dealers, att, nsent, zBook, zRecv, zMain, others>>

SenderStep(t) ==
    \/ \E p \in PeerIds : SendPeer(t, p)
    \/ SendBroadcast(t)
    \/ UNew(t) \/ UStore(t) \/ ULock(t) \/ USend(t)
    \/ BLock(t) \/ BNext(t) \/ BNew(t) \/ BStore(t) \/ BSend(t)


\* ----------------------------------------------- ZmqTransport: lifecycle

zSend == <<dealers, socks, send_lock, pc, loc, last, att, nsent>>
Loops == 1..MaxOps
Running == {i \in Loops : rxpc[i] \notin {"unborn", "done"}}

\* the controlling thread is between calls
MainIdle == mpc = "idle" /\ lpc = "idle" /\ r_pc = "idle"

\* start(), lines 50-53: clear the event, spawn a receive loop, keep only the
\* new thread in _rx_thread
ZmqStart ==
    /\ stopEv' = FALSE
    /\ rx_thread' = nstart + 1
    /\ rxpc' = [rxpc EXCEPT ![nstart + 1] = "head"]

\* a join without timeout: it ends when the loop has terminated
JoinOutcomes_notimeout(at) == IF at = "done" THEN {"terminated"} ELSE {}

\* a stop() that does not wait for the receive loop
JoinOutcomes_nowait(at) == {"terminated"}

\* how threading.Thread.join(timeout=1.0) can end: the loop has terminated, or
\* the second runs out. A poll lasts at most 100 ms and the receive does not
\* block, so the timeout is only reached by a callback that is still running.
JoinOutcomes(at) ==
    IF at = "done" THEN {"terminated"} ELSE IF at = "cb" THEN {"timeout"} ELSE {}

\* an unregister outside try/except: the KeyError of a second stop() escapes
UnregisterOutcome_uncaught(reg) == IF reg THEN "ok" ELSE "raised"

\* lines 67-70: self._poller.unregister(self._router) inside try/except;
\* unregistering a socket that is not registered raises KeyError
UnregisterOutcome(reg) == IF reg THEN "ok" ELSE "swallowed"

\* stop(), lines 56-57: set the event; the join comes next when a loop exists
ZmqStopBegin(byLibby) ==
    /\ stopEv' = TRUE
    /\ mpc' = IF rx_thread # 0 THEN "s_join" ELSE "s_close"
    /\ via' = byLibby
    /\ joined' = "none"
    /\ mres' = "pending"
    /\ nstop' = nstop + 1
    /\ UNCHANGED <<zBook, zSend, rx_thread, router, registered, inbox, rxpc,
                   nstart, nadd>>

\* line 58: self._rx_thread.join(timeout=1.0)
StopJoin ==
    /\ mpc = "s_join"
    /\ \E how \in JoinOutcomes(rxpc[rx_thread]) : joined' = how
    /\ mpc' = "s_close"
    /\ UNCHANGED <<zBook, zSend, zRecv, mres, via, nstart, nstop, nadd, others>>

\* lines 60-64: close every socket of a snapshot of _dealers.values()
StopCloseDealers ==
    /\ mpc = "s_close"
    /\ socks' = [i \in 1..Len(socks) |->
                    IF i \in Cached THEN Closed(socks[i]) ELSE socks[i]]
    /\ mpc' = "s_clear"
    /\ UNCHANGED <<zBook, dealers, send_lock, pc, loc, last, att, nsent, zRecv, mres,
                   joined, via, nstart, nstop, nadd, others>>

\* line 65: self._dealers.clear()
StopClear ==
    /\ mpc = "s_clear"
    /\ dealers' = [p \in PeerIds |-> 0]
    /\ mpc' = "s_router"
    /\ UNCHANGED <<zBook, socks, send_lock, pc, loc, last, att, nsent, zRecv, mres,
                   joined, via, nstart, nstop, nadd, others>>

\* lines 67-74: unregister and close the ROUTER, each in its own try/except;
\* then stop() returns, to Libby.stop when that made the call
StopRouter ==
    /\ mpc = "s_router"
    /\ mpc' = "idle"
    /\ IF UnregisterOutcome(registered) = "raised"
       THEN /\ mres' = "raised"
            /\ UNCHANGED <<registered, router>>
       ELSE /\ mres' = "returned"
            /\ registered' = FALSE
            /\ router' = "closed"
    /\ IF via
       THEN lpc' = "idle" /\ lres' = "returned"
       ELSE UNCHANGED <<lpc, lres>>
    /\ UNCHANGED <<zBook, zSend, stopEv, rx_thread, inbox, rxpc, joined, via,
                   nstart, nstop, nadd, backend, rvars, disco, llog, wvars, xvars, pvars, qvars, dvars, kvars, mvars>>

\* add_peer, line 110: self._book[peer_id] = endpoint
AddPeer(p, e) ==
    /\ ZmqUp /\ MainIdle /\ Ops < MaxOps
    /\ book' = [book EXCEPT ![p] = e]
    /\ bookOrder' = IF book[p] = None THEN Append(bookOrder, p) ELSE bookOrder
    /\ nadd' = nadd + 1
    /\ UNCHANGED <<zSend, zRecv, mpc, mres, joined, via, nstart, nstop, others>>

\* a frame from a remote DEALER reaches the ROUTER
Arrive ==
    /\ ZmqUp /\ router = "open" /\ inbox = 0
    /\ inbox' = 1
    /\ UNCHANGED <<zBook, zSend, zMain, stopEv, rx_thread, router, registered, rxpc, others>>

RxMove(i, to) ==
    /\ rxpc' = [rxpc EXCEPT ![i] = to]
    /\ UNCHANGED <<zBook, zSend, zMain, stopEv, rx_thread, router, registered, others>>

\* line 130: while not self._stop.is_set()
RxHead(i) ==
    /\ rxpc[i] = "head"
    /\ inbox' = inbox
    /\ RxMove(i, IF stopEv THEN "done" ELSE "poll")

\* where a poll(100) that was entered can lead: a closed ROUTER under a running
\* poll is not defined by zmq (ZMQError and the loop breaks, or nothing polled);
\* a readable ROUTER leads to the receive; otherwise the poll times out
PollOutcomes ==
    IF router = "closed" THEN {"done", "head"}
    ELSE IF registered /\ inbox > 0 THEN {"recv"}
    ELSE {"head"}

\* lines 131-136
RxPoll(i) ==
    /\ rxpc[i] = "poll"
    /\ inbox' = inbox
    /\ \E to \in PollOutcomes : RxMove(i, to)

\* lines 137-142: recv_multipart(NOBLOCK); zmq.Again when another loop took the
\* frame; on a closed socket ZMQError, which nothing catches
RxRecv(i) ==
    /\ rxpc[i] = "recv"
    /\ IF router = "closed" THEN inbox' = inbox /\ RxMove(i, "done")
       ELSE IF inbox = 0 THEN inbox' = inbox /\ RxMove(i, "head")
       ELSE inbox' = inbox - 1 /\ RxMove(i, "cb")

\* lines 153-155: self._cb(...) returns, or raises and ends the thread
RxCallback(i) ==
    /\ rxpc[i] = "cb"
    /\ inbox' = inbox
    /\ \E to \in {"head", "done"} : RxMove(i, to)

RxStep(i) == RxHead(i) \/ RxPoll(i) \/ RxRecv(i) \/ RxCallback(i)


\* ------------------------------------------ RabbitMQTransport: lifecycle

RmqUp == backend = "rabbitmq"

\* start(), lines 108-114: nothing when the thread is alive; else clear the
\* event and spawn the consume loop
RmqStart ==
    IF r_rx \in {"loop", "cb"}
    THEN UNCHANGED <<r_stop, r_rx>>
    ELSE r_stop' = FALSE /\ r_rx' = "loop"

\* the consume loop, lines 232-234 and 196-212: a delivery enters the callback
RmqDeliver ==
    /\ r_rx = "loop" /\ ~r_stop
    /\ r_rx' = "cb"
    /\ UNCHANGED <<backend, zvars, r_stop, r_channel, r_connection, r_pc, lvars, wvars, xvars, pvars, qvars, dvars, kvars, mvars>>

\* the callback returns (an exception it raises is swallowed, line 208)
RmqCallbackReturns ==
    /\ r_rx = "cb"
    /\ r_rx' = "loop"
    /\ UNCHANGED <<backend, zvars, r_stop, r_channel, r_connection, r_pc, lvars, wvars, xvars, pvars, qvars, dvars, kvars, mvars>>

\* line 232: the loop sees the event set and leaves through `finally`
RmqLoopExit ==
    /\ r_rx = "loop" /\ r_stop
    /\ r_rx' = "done"
    /\ UNCHANGED <<backend, zvars, r_stop, r_channel, r_connection, r_pc, lvars, wvars, xvars, pvars, qvars, dvars, kvars, mvars>>

\* the broker drops the publish connection: is_open turns false
RmqConnectionLost ==
    /\ RmqUp /\ r_connection = "open"
    /\ r_channel' = "closed"
    /\ r_connection' = "closed"
    /\ UNCHANGED <<backend, zvars, r_stop, r_rx, r_pc, lvars, wvars, xvars, pvars, qvars, dvars, kvars, mvars>>

\* stop(), lines 118-121
RmqStopBegin(byLibby) ==
    /\ r_stop' = TRUE
    /\ r_pc' = IF r_rx # "none" THEN "r_join" ELSE "r_close"
    /\ via' = byLibby
    /\ joined' = "none"
    /\ mres' = "pending"
    /\ nstop' = nstop + 1
    /\ UNCHANGED <<zBook, zSend, zRecv, mpc, nstart, nadd, r_rx, r_channel, r_connection>>

\* how join(timeout=2.0) of line 122 can end: the loop has terminated, or the
\* two seconds run out while the thread is in a callback or in an operation
\* on its connection (opening one, closing one) that takes longer
RmqJoinOutcomes(at) ==
    IF at = "done" THEN {"terminated"} ELSE IF at \in {"loop", "cb"} THEN {"timeout"} ELSE {}

\* line 122: self._rx_thread.join(timeout=2.0)
RmqStopJoin ==
    /\ r_pc = "r_join"
    /\ \E how \in RmqJoinOutcomes(r_rx) : joined' = how
    /\ r_pc' = "r_close"
    /\ UNCHANGED <<backend, zBook, zSend, zRecv, mpc, mres, via, nstart, nstop, nadd,
                   r_stop, r_rx, r_channel, r_connection, lvars, wvars, xvars, pvars, qvars, dvars, kvars, mvars>>

\* lines 125-135: close the channel and the connection when they are open, each
\* inside try/except; then stop() returns
RmqStopClose ==
    /\ r_pc = "r_close"
    /\ r_channel' = "closed"
    /\ r_connection' = "closed"
    /\ r_pc' = "idle"
    /\ mres' = "returned"
    /\ IF via
       THEN lpc' = "idle" /\ lres' = "returned"
       ELSE UNCHANGED <<lpc, lres>>
    /\ UNCHANGED <<backend, zBook, zSend, zRecv, mpc, joined, via, nstart, nstop, nadd,
                   r_stop, r_rx, disco, llog, wvars, xvars, pvars, qvars, dvars, kvars, mvars>>

\* -------------------------------------------------------------------- Libby

\* the transport's start(), called directly: by the factory (libby.py line 69
\* or 121) or by the owner of a hand-built transport
TransportStart ==
    /\ MainIdle /\ Ops < MaxOps
    /\ nstart' = nstart + 1
    /\ mres' = "returned"
    /\ IF ZmqUp
       THEN ZmqStart /\ UNCHANGED <<r_stop, r_rx>>
       ELSE RmqStart /\ UNCHANGED <<stopEv, rx_thread, rxpc>>
    /\ UNCHANGED <<backend, zBook, zSend, router, registered, inbox, mpc, joined,
                   via, nstop, nadd, r_channel, r_connection, r_pc, lvars, wvars, xvars, pvars, qvars, dvars, kvars, mvars>>

\* Libby.start, lines 133-136: transport.start() inside try/except
LibbyStart ==
    /\ MainIdle /\ Ops < MaxOps
    /\ nstart' = nstart + 1
    /\ lres' = "started"
    /\ IF ZmqUp
       THEN ZmqStart /\ UNCHANGED <<r_stop, r_rx>>
       ELSE RmqStart /\ UNCHANGED <<stopEv, rx_thread, rxpc>>
    /\ UNCHANGED <<backend, zBook, zSend, router, registered, inbox, mpc, mres,
                   joined, via, nstop, nadd, r_channel, r_connection, r_pc, disco, lpc,
                   llog, wvars, xvars, pvars, qvars, dvars, kvars, mvars>>

\* the transport's stop(), called directly
TransportStop ==
    /\ MainIdle /\ Ops < MaxOps
    /\ IF ZmqUp
       THEN ZmqStopBegin(FALSE) /\ UNCHANGED rvars
       ELSE RmqStopBegin(FALSE)
    /\ UNCHANGED <<backend, lvars, wvars, xvars, pvars, qvars, dvars, kvars, mvars>>

\* Libby.stop, line 139: if getattr(self, "_disco", None)
LibbyStop ==
    /\ MainIdle /\ Ops < MaxOps
    /\ lpc' = IF disco # "none" THEN "l_disco" ELSE "l_transport"
    /\ llog' = <<>>
    /\ lres' = "pending"
    /\ UNCHANGED <<backend, zvars, rvars, disco, wvars, xvars, pvars, qvars, dvars, kvars, mvars>>

\* a discovery stop outside try/except: its exception leaves Libby.stop
AfterDiscoStop_notry(out) == IF out = "raises" THEN "propagate" ELSE "l_transport"

\* lines 140-141: `try: self._disco.stop()` / `except Exception: pass`: where
\* Libby.stop goes after the discovery's stop ended as `out`
AfterDiscoStop(out) == "l_transport"

LibbyStopDisco ==
    /\ lpc = "l_disco"
    /\ \E out \in {"returns", "raises"} :
          /\ disco' = IF out = "returns" THEN "stopped" ELSE disco
          /\ llog' = Append(llog, "disco.stop")
          /\ IF AfterDiscoStop(out) = "propagate"
             THEN lpc' = "idle" /\ lres' = "raised"
             ELSE lpc' = AfterDiscoStop(out) /\ lres' = lres
    /\ UNCHANGED <<backend, zvars, rvars, wvars, xvars, pvars, qvars, dvars, kvars, mvars>>

\* lines 142-144: `try: self.transport.stop()`
LibbyStopTransport ==
    /\ lpc = "l_transport"
    /\ lpc' = "l_wait"
    /\ llog' = Append(llog, "transport.stop")
    /\ IF ZmqUp
       THEN ZmqStopBegin(TRUE) /\ UNCHANGED rvars
       ELSE RmqStopBegin(TRUE)
    /\ UNCHANGED <<backend, disco, lres, wvars, xvars, pvars, qvars, dvars, kvars, mvars>>


\* ------------------------------------------------------------ wait_for_key
\* Time is counted in ticks. The predicate check takes no time; time passes
\* while wait_for_key sleeps, and the sleep lasts exactly poll_s.


\* the polled predicate turns true: knows_key(peer, key) for wait_for_key
\* (line 198), peer_id in peers_alive(within_s=9999) for wait_for_peer (line
\* 206); a discovery announcement is processed on the receive thread, or
\* learn_peer_keys is called
Learn ==
    /\ ~knows /\ w_pc # "idle"
    /\ knows' = TRUE
    /\ knownAt' = now
    /\ UNCHANGED <<backend, zvars, rvars, lvars, xvars, pvars, qvars, dvars, kvars, mvars, now, w_pc, w_fn, w_timeout, w_poll, w_called,
                   w_deadline, w_wake, w_result>>

\* lines 196/204: deadline = time.time() + timeout_s
WaitCall ==
    /\ w_pc = "idle"
    /\ w_called' = now
    /\ w_deadline' = now + w_timeout
    /\ w_pc' = "test"
    /\ UNCHANGED <<backend, zvars, rvars, lvars, xvars, pvars, qvars, dvars, kvars, mvars, now, knows, knownAt, w_fn, w_timeout, w_poll,
                   w_wake, w_result>>

\* the loop test of lines 197 and 205, with no bound on the wait
BeforeDeadline_always(t, deadline) == TRUE

\* line 197 (wait_for_key) and line 205 (wait_for_peer):
\* while time.time() < deadline
BeforeDeadline(t, deadline) == t < deadline

\* lines 197/205: the loop test; lines 201/209: return False
WaitTest ==
    /\ w_pc = "test"
    /\ IF BeforeDeadline(now, w_deadline)
       THEN w_pc' = "check" /\ w_result' = w_result
       ELSE w_pc' = "returned" /\ w_result' = "False"
    /\ UNCHANGED <<backend, zvars, rvars, lvars, xvars, pvars, qvars, dvars, kvars, mvars, now, knows, knownAt, w_fn, w_timeout, w_poll,
                   w_called, w_deadline, w_wake>>

\* lines 198-200 / 206-208: return True when the predicate holds, else
\* time.sleep(poll_s)
WaitCheck ==
    /\ w_pc = "check"
    /\ IF knows
       THEN w_pc' = "returned" /\ w_result' = "True" /\ w_wake' = w_wake
       ELSE w_pc' = "sleep" /\ w_result' = w_result /\ w_wake' = now + w_poll
    /\ UNCHANGED <<backend, zvars, rvars, lvars, xvars, pvars, qvars, dvars, kvars, mvars, now, knows, knownAt, w_fn, w_timeout, w_poll,
                   w_called, w_deadline>>

\* a tick passes during the sleep
Tick ==
    /\ w_pc = "sleep" /\ now < w_wake
    /\ now <= MaxTimeout + MaxPoll
    /\ now' = now + 1
    /\ UNCHANGED <<backend, zvars, rvars, lvars, xvars, pvars, qvars, dvars, kvars, mvars, knows, knownAt, w_pc, w_fn, w_timeout, w_poll,
                   w_called, w_deadline, w_wake, w_result>>

\* the sleep is over
WaitWake ==
    /\ w_pc = "sleep" /\ now >= w_wake
    /\ w_pc' = "test"
    /\ UNCHANGED <<backend, zvars, rvars, lvars, xvars, pvars, qvars, dvars, kvars, mvars, now, knows, knownAt, w_fn, w_timeout, w_poll,
                   w_called, w_deadline, w_wake, w_result>>

\* ------------------------------------- RabbitMQTransport: the consume loop
\* The broker is seen from the queue of one peer. A receive connection has two
\* ends: the socket of the consume loop (link) and the connection the broker
\* holds (b_conns). A network drop kills the socket at once, while the broker
\* keeps its end, the consumer and the unacknowledged deliveries until it
\* notices (heartbeat = 600, lines 217 and 52); a close by the broker, or a
\* clean close by the loop, ends both at once.

Msgs == 1..MaxMsgs
\* every run of the loop opens one connection, and one more after each loss
MaxConns == MaxLoss + MaxOps
Conns == 1..MaxConns

Bump(f, m) == [f EXCEPT ![m] = @ + 1]

\* the broker ends connection c: its consumer goes, its unacknowledged
\* deliveries return to the queue, and the queue, declared auto_delete=True
\* (line 85), is deleted with its messages when that was its last consumer
Requeued(c) == {m \in Msgs : q_unacked[m] = c}
QueueGoes(c) == c \in q_consumers /\ q_consumers \ {c} = {}
BrokerEnds(c) ==
    /\ b_conns' = b_conns \ {c}
    /\ q_consumers' = q_consumers \ {c}
    /\ q_unacked' = [m \in Msgs |-> IF q_unacked[m] = c THEN 0 ELSE q_unacked[m]]
    /\ q_exists' = (q_exists /\ ~QueueGoes(c))
    /\ q_ready' = IF QueueGoes(c) THEN {} ELSE q_ready \cup Requeued(c)

\* another peer publishes message m for this peer: it is queued when the queue
\* is declared, and dropped as unroutable otherwise
Publish(m) ==
    /\ b_up /\ m \notin pub /\ (m = 1 \/ m - 1 \in pub)
    /\ pub' = pub \cup {m}
    /\ q_ready' = IF q_exists THEN q_ready \cup {m} ELSE q_ready
    /\ UNCHANGED <<backend, zvars, rvars, lvars, wvars, pvars, qvars, dvars, kvars, mvars, cvars, b_up, b_conns, link,
                   q_exists, q_unacked, q_consumers, q_acked, nloss, nconn>>

\* the broker sends a ready message to a consumer (basic_consume with
\* auto_ack=False, no prefetch limit); it reaches the loop when the socket lives
Deliver(m, c) ==
    /\ m \in q_ready /\ c \in q_consumers
    /\ q_ready' = q_ready \ {m}
    /\ q_unacked' = [q_unacked EXCEPT ![m] = c]
    /\ c_buf' = IF link[c] = "up" /\ c = c_conn THEN c_buf \cup {m} ELSE c_buf
    /\ UNCHANGED <<backend, zvars, rvars, lvars, wvars, pvars, qvars, dvars, kvars, mvars, b_up, b_conns, link, q_exists,
                   q_consumers, q_acked, pub, nloss, nconn, c_pc, c_conn, c_cur, c_cb, c_out,
                   handed, calls, acks, acksLost>>

\* the network drops connection c: the loop's socket is dead, the broker has
\* not noticed yet
ConnLost(c) ==
    /\ link[c] = "up" /\ nloss < MaxLoss
    /\ link' = [link EXCEPT ![c] = "dead"]
    /\ nloss' = nloss + 1
    /\ UNCHANGED <<backend, zvars, rvars, lvars, wvars, pvars, qvars, dvars, kvars, mvars, cvars, b_up, b_conns, q_exists,
                   q_ready, q_unacked, q_consumers, q_acked, pub, nconn>>

\* the broker closes connection c (an operator's forced close), or notices
\* that its peer is gone
BrokerDrops(c) ==
    /\ c \in b_conns
    /\ link[c] = "up" => nloss < MaxLoss
    /\ BrokerEnds(c)
    /\ link' = [link EXCEPT ![c] = "dead"]
    /\ nloss' = IF link[c] = "up" THEN nloss + 1 ELSE nloss
    /\ UNCHANGED <<backend, zvars, rvars, lvars, wvars, pvars, qvars, dvars, kvars, mvars, cvars, b_up, q_acked, pub, nconn>>

\* the broker becomes unreachable: every socket to it is dead
BrokerDown ==
    /\ b_up /\ nloss < MaxLoss
    /\ b_up' = FALSE
    /\ link' = [c \in Conns |-> IF link[c] = "up" THEN "dead" ELSE link[c]]
    /\ p_link' = "dead"
    /\ nloss' = nloss + 1
    /\ UNCHANGED <<backend, zvars, rvars, lvars, wvars, qvars, dvars, kvars, mvars, r_lock, s_pc, s_cur, s_last,
                   published, dropped, nframe, cvars, b_conns, q_exists,
                   q_ready, q_unacked, q_consumers, q_acked, pub, nconn>>

\* the broker is reachable again
BrokerUp ==
    /\ ~b_up
    /\ b_up' = TRUE
    /\ UNCHANGED <<backend, zvars, rvars, lvars, wvars, pvars, qvars, dvars, kvars, mvars, cvars, b_conns, link, q_exists,
                   q_ready, q_unacked, q_consumers, q_acked, pub, nloss, nconn>>

\* on_receive, line 145
OnReceive ==
    /\ ~c_cb
    /\ c_cb' = TRUE
    /\ UNCHANGED <<backend, zvars, rvars, lvars, wvars, pvars, qvars, dvars, kvars, mvars, bvars, c_pc, c_conn, c_buf,
                   c_cur, c_out, handed, calls, acks, acksLost>>

cLoop == <<c_conn, c_buf, c_cur, c_cb, c_out, handed, calls, acks, acksLost>>
rMain == <<r_stop, r_channel, r_connection, r_pc>>
notRmq == <<backend, zvars, lvars, wvars, pvars, qvars, dvars, kvars, mvars>>

\* the thread spawned by start() enters _rx_loop, lines 192-194
CBegin ==
    /\ r_rx = "loop" /\ c_pc \in {"none", "done"}
    /\ c_pc' = "connect"
    /\ c_conn' = 0
    /\ c_buf' = {}
    /\ UNCHANGED <<notRmq, rvars, bvars, c_cur, c_cb, c_out, handed, calls, acks, acksLost>>

\* pika.BlockingConnection(params) and channel(): a new connection when the
\* broker is reachable, an exception otherwise
OpenConn ==
    /\ b_up /\ nconn < MaxConns
    /\ nconn' = nconn + 1
    /\ c_conn' = nconn + 1
    /\ link' = [link EXCEPT ![nconn + 1] = "up"]
    /\ b_conns' = b_conns \cup {nconn + 1}
    /\ c_buf' = {}

\* _setup_topology and basic_consume on the loop's channel: the queue is
\* declared (a no-op when it exists) and a consumer registered on it
DeclareAndConsume ==
    /\ q_exists' = TRUE
    /\ q_consumers' = q_consumers \cup {c_conn}

\* lines 216-219; a failure leaves through `except Exception: pass` (line 262)
CConnect ==
    /\ c_pc = "connect"
    /\ IF b_up
       THEN OpenConn /\ c_pc' = "declare"
       ELSE c_pc' = "finally" /\ UNCHANGED <<c_conn, link, b_conns, c_buf, nconn>>
    /\ UNCHANGED <<notRmq, rvars, b_up, q_exists, q_ready, q_unacked, q_consumers,
                   q_acked, pub, nloss, c_cur, c_cb, c_out, handed, calls, acks, acksLost>>

\* lines 222-229
CDeclare ==
    /\ c_pc = "declare"
    /\ IF link[c_conn] = "up"
       THEN DeclareAndConsume /\ c_pc' = "poll"
       ELSE c_pc' = "finally" /\ UNCHANGED <<q_exists, q_consumers>>
    /\ UNCHANGED <<notRmq, rvars, b_up, b_conns, link, q_ready, q_unacked, q_acked, pub,
                   nloss, nconn, cLoop>>

\* lines 235-237, the handler of a processing error with no reconnect
OnProcessingError_giveup(stop) == "finally"

\* lines 235-237: except Exception: if self._stop.is_set(): break; else the
\* reconnect of lines 239-256
OnProcessingError(stop) == IF stop THEN "finally" ELSE "teardown"

\* lines 232-234: the loop test, then process_data_events(time_limit=0.1): it
\* raises on a dead socket, and dispatches a received delivery to
\* message_callback (lines 196-203)
CPoll(m) ==
    /\ c_pc = "poll"
    /\ IF r_stop
       THEN c_pc' = "finally" /\ UNCHANGED <<r_rx, c_buf, c_cur, handed, calls>>
       ELSE IF link[c_conn] # "up"
       THEN /\ c_pc' = OnProcessingError(r_stop)
            /\ UNCHANGED <<r_rx, c_buf, c_cur, handed, calls>>
       ELSE /\ m \in c_buf
            /\ c_buf' = c_buf \ {m}
            /\ c_cur' = m
            /\ handed' = Bump(handed, m)
            /\ IF c_cb
               THEN c_pc' = "cb" /\ r_rx' = "cb" /\ calls' = Bump(calls, m)
               ELSE c_pc' = "ack" /\ UNCHANGED <<r_rx, calls>>
    /\ UNCHANGED <<notRmq, rMain, bvars, c_conn, c_cb, c_out, acks, acksLost>>

\* lines 206-212 without the try/except around self._cb
AfterCallback_noswallow(out) == IF out = "raised" THEN "teardown" ELSE "ack"

\* lines 206-212: try: self._cb(...) except Exception: pass; then basic_ack
AfterCallback(out) == "ack"

\* lines 206-209: self._cb returns, or raises and the exception is swallowed
CCallback ==
    /\ c_pc = "cb"
    /\ \E out \in {"returned", "raised"} : c_out' = out /\ c_pc' = AfterCallback(out)
    /\ r_rx' = "loop"
    /\ UNCHANGED <<notRmq, rMain, bvars, c_conn, c_buf, c_cur, c_cb, handed, calls, acks,
                   acksLost>>

\* lines 199 and 212: ch.basic_ack; on a dead socket the acknowledgement does
\* not reach the broker and the error surfaces in process_data_events
CAck ==
    /\ c_pc = "ack"
    /\ acks' = Bump(acks, c_cur)
    /\ c_cur' = 0
    /\ IF link[c_conn] = "up"
       THEN /\ q_acked' = Bump(q_acked, c_cur)
            /\ q_unacked' = [q_unacked EXCEPT ![c_cur] = 0]
            /\ c_pc' = "poll"
            /\ UNCHANGED acksLost
       ELSE /\ acksLost' = Bump(acksLost, c_cur)
            /\ c_pc' = OnProcessingError(r_stop)
            /\ UNCHANGED <<q_acked, q_unacked>>
    /\ UNCHANGED <<notRmq, rvars, b_up, b_conns, link, q_exists, q_ready, q_consumers,
                   pub, nloss, nconn, c_conn, c_buf, c_cb, c_out, handed, calls>>

\* lines 239-243: the broken channel and connection are not open any more,
\* nothing is sent to the broker
CTeardown ==
    /\ c_pc = "teardown"
    /\ c_pc' = "reconnect"
    /\ UNCHANGED <<notRmq, rvars, bvars, cLoop>>

\* lines 246-247; lines 257-260 when the attempt fails
CReconnect ==
    /\ c_pc = "reconnect"
    /\ IF b_up /\ nconn < MaxConns
       THEN OpenConn /\ c_pc' = "redeclare"
       ELSE c_pc' = "backoff" /\ UNCHANGED <<c_conn, link, b_conns, c_buf, nconn>>
    /\ UNCHANGED <<notRmq, rvars, b_up, q_exists, q_ready, q_unacked, q_consumers,
                   q_acked, pub, nloss, c_cur, c_cb, c_out, handed, calls, acks, acksLost>>

\* lines 250-256; lines 257-260 when the new connection broke meanwhile
CRedeclare ==
    /\ c_pc = "redeclare"
    /\ IF link[c_conn] = "up"
       THEN DeclareAndConsume /\ c_pc' = "poll"
       ELSE c_pc' = "backoff" /\ UNCHANGED <<q_exists, q_consumers>>
    /\ UNCHANGED <<notRmq, rvars, b_up, b_conns, link, q_ready, q_unacked, q_acked, pub,
                   nloss, nconn, cLoop>>

\* lines 259-260: self._stop.wait(1.0) unless the event is set, then back to
\* the loop test
CBackoff ==
    /\ c_pc = "backoff"
    /\ c_pc' = "poll"
    /\ UNCHANGED <<notRmq, rvars, bvars, cLoop>>

\* lines 264-279: the loop closes its channel and connection and ends; a
\* clean close of a live connection ends it at the broker too
CFinally ==
    /\ c_pc = "finally"
    /\ c_pc' = "done"
    /\ r_rx' = "done"
    /\ IF c_conn # 0 /\ link[c_conn] = "up"
       THEN BrokerEnds(c_conn) /\ link' = [link EXCEPT ![c_conn] = "dead"]
       ELSE UNCHANGED <<b_conns, q_consumers, q_unacked, q_exists, q_ready, link>>
    /\ UNCHANGED <<notRmq, rMain, b_up, q_acked, pub, nloss, nconn, cLoop>>

ConsumeStep ==
    \/ CBegin \/ CConnect \/ CDeclare
    \/ \E m \in Msgs : CPoll(m)
    \/ CCallback \/ CAck \/ CTeardown \/ CReconnect \/ CRedeclare \/ CBackoff \/ CFinally

\* --------------------------------------------- RabbitMQTransport: send
\* The transport belongs to peer Self. Its publish connection has a socket
\* (p_link) and the state pika keeps for it (r_channel, r_connection): after
\* the socket died, is_open stays true until a publish runs into the error.

BPeers == {"X", "Y"}
Self == "X"
\* the destinations given to send(): "peer:Y" and "broadcast:*"
Dests == {[kind |-> "peer", id |-> "Y"], [kind |-> "broadcast", id |-> None]}
\* with Self among the destinations
RouteDests == Dests \cup {[kind |-> "peer", id |-> Self]}

\* a send() call: the frame, the destination, the channel's state when the
\* lock was taken, the losses counted at the call, whether the broker was
\* reachable and stop() not called all through the call, and how the call ended
NoFrame == [id |-> 0, dest |-> [kind |-> "none", id |-> None], chAtLock |-> "none",
            loss |-> 0, up |-> FALSE, res |-> "none"]

\* line 157 with the check left out
ChannelReady_always(ch) == TRUE

\* line 157: self._send_channel and self._send_channel.is_open
ChannelReady(ch) == ch = "open"

\* lines 162-184 with the routing key left empty for a peer too
Message_nokey(f) ==
    IF f.dest.kind = "peer"
    THEN [id |-> f.id, exchange |-> "libby.direct", key |-> "", app_id |-> Self,
          body |-> f.id]
    ELSE [id |-> f.id, exchange |-> "libby.fanout", key |-> "", app_id |-> Self,
          body |-> f.id]

\* lines 162-184: what basic_publish is called with; app_id carries the
\* sender's id, the body is the frame
Message(f) ==
    IF f.dest.kind = "peer"
    THEN [id |-> f.id, exchange |-> "libby.direct", key |-> f.dest.id, app_id |-> Self,
          body |-> f.id]
    ELSE [id |-> f.id, exchange |-> "libby.fanout", key |-> "", app_id |-> Self,
          body |-> f.id]

\* send(), lines 157-158: the frame is dropped when the channel is not open
SendCall(t, d) ==
    /\ s_pc[t] = "idle" /\ Ops < MaxOps
    /\ nframe' = nframe + 1
    /\ LET f == [NoFrame EXCEPT !.id = nframe + 1, !.dest = d, !.loss = nloss,
                               !.up = b_up /\ nstop = 0]
       IN IF ChannelReady(r_channel)
          THEN /\ s_pc' = [s_pc EXCEPT ![t] = "s_lock"]
               /\ s_cur' = [s_cur EXCEPT ![t] = f]
               /\ UNCHANGED <<s_last, dropped>>
          ELSE /\ s_last' = [s_last EXCEPT ![t] = [f EXCEPT !.res = "dropped", !.loss = 0]]
               /\ dropped' = dropped \cup {f.id}
               /\ UNCHANGED <<s_pc, s_cur>>
    /\ UNCHANGED <<backend, zvars, rvars, lvars, wvars, xvars, qvars, dvars, kvars, mvars, r_lock, p_link, published>>

\* line 161: with self._send_lock
SendLock(t) ==
    /\ s_pc[t] = "s_lock" /\ r_lock = Free
    /\ r_lock' = t
    /\ s_pc' = [s_pc EXCEPT ![t] = "s_pub"]
    /\ s_cur' = [s_cur EXCEPT ![t].chAtLock = r_channel]
    /\ UNCHANGED <<backend, zvars, rvars, lvars, wvars, xvars, qvars, dvars, kvars, mvars, p_link, s_last, published,
                   dropped, nframe>>

\* how basic_publish ends. On a channel closed before the call it raises
\* ChannelWrongStateError, on a dead socket StreamLostError, both AMQPError
\* and swallowed (lines 186-188); on a channel that stop() closed while the
\* call was running, pika being used by two threads at once, any error
PublishOutcomes(ch, chAtLock, sock) ==
    IF ch # "open" /\ chAtLock = "open" THEN {"swallowed", "raised"}
    ELSE IF ch # "open" \/ sock # "up" THEN {"swallowed"}
    ELSE {"published"}

\* lines 162-188: basic_publish under the lock, then send() returns
SendPublish(t) ==
    /\ s_pc[t] = "s_pub"
    /\ \E out \in PublishOutcomes(r_channel, s_cur[t].chAtLock, p_link) :
          /\ s_last' = [s_last EXCEPT ![t] = [s_cur[t] EXCEPT !.res = out,
                                                              !.chAtLock = "none",
                                                              !.up = /\ @ /\ b_up /\ nstop = 0
                                                                     /\ nloss = s_cur[t].loss,
                                                              !.loss = 0]]
          /\ published' = IF out = "published"
                          THEN published \cup {Message(s_cur[t])} ELSE published
    /\ IF r_channel = "open" /\ p_link # "up"
       THEN r_channel' = "closed" /\ r_connection' = "closed"
       ELSE UNCHANGED <<r_channel, r_connection>>
    /\ s_pc' = [s_pc EXCEPT ![t] = "idle"]
    /\ s_cur' = [s_cur EXCEPT ![t] = NoFrame]
    /\ r_lock' = Free
    /\ UNCHANGED <<backend, zvars, r_stop, r_rx, r_pc, lvars, wvars, xvars, qvars, dvars, kvars, mvars, p_link, dropped,
                   nframe>>

SendStep(t) == (\E d \in Dests : SendCall(t, d)) \/ SendLock(t) \/ SendPublish(t)

\* ----------------------------------- the broker's exchanges and the peers
\* Every peer of the broker runs a RabbitMQTransport of its own; Self's sends
\* are the ones modelled step by step above, and every peer's message_callback
\* is taken here at the grain of one message.

\* _setup_topology without the binding of lines 96-99
Bindings_directonly(p) ==
    {[queue |-> p, exchange |-> "libby.direct", key |-> p]}

\* _setup_topology, lines 81-99: the queue libby.peer.<p> (named p here), bound
\* to libby.direct with routing key p and to libby.fanout
Bindings(p) ==
    {[queue |-> p, exchange |-> "libby.direct", key |-> p],
     [queue |-> p, exchange |-> "libby.fanout", key |-> ""]}

\* lines 67-78: libby.direct is a direct exchange, libby.fanout a fanout one;
\* the queues message m is routed to
Route(m) ==
    {b.queue : b \in {c \in binds : /\ c.exchange = m.exchange
                                     /\ (m.exchange = "libby.fanout" \/ c.key = m.key)}}

\* line 203: src_peer = properties.app_id if properties.app_id else "unknown";
\* line 207: the source handed to the callback
SourceOf(app_id) == [kind |-> "peer", id |-> IF app_id = "" THEN "unknown" ELSE app_id]

\* peer p builds its transport: _setup (lines 47-60) declares its topology;
\* so does its consume loop on a new connection (lines 221, 254)
Construct(p) ==
    /\ b_up /\ p \notin declared
    /\ declared' = declared \cup {p}
    /\ binds' = binds \cup Bindings(p)
    /\ UNCHANGED <<backend, zvars, rvars, lvars, wvars, xvars, pvars, dvars, kvars, mvars, queue, routed, got>>

\* lines 82-86, auto_delete=True: the broker deletes the queue of p, its
\* bindings and what is in it, when its last consumer is gone
QueueAutoDeleted(p) ==
    /\ p \in declared
    /\ declared' = declared \ {p}
    /\ binds' = {b \in binds : b.queue # p}
    /\ queue' = [queue EXCEPT ![p] = <<>>]
    /\ UNCHANGED <<backend, zvars, rvars, lvars, wvars, xvars, pvars, dvars, kvars, mvars, routed, got>>

\* the broker routes a published message into the queues bound for it
BrokerRoutes(m) ==
    /\ m \in published /\ m.id \notin routed
    /\ routed' = routed \cup {m.id}
    /\ queue' = [p \in BPeers |-> IF p \in Route(m) THEN Append(queue[p], m) ELSE queue[p]]
    /\ UNCHANGED <<backend, zvars, rvars, lvars, wvars, xvars, pvars, dvars, kvars, mvars, declared, binds, got>>

\* message_callback of peer p, lines 196-212, for the message at the head of
\* its queue: the callback gets the source and the body, the message is
\* acknowledged
PeerHandles(p) ==
    /\ queue[p] # <<>>
    /\ got' = [got EXCEPT ![p] = Append(@, [src |-> SourceOf(Head(queue[p]).app_id),
                                           payload |-> Head(queue[p]).body,
                                           id |-> Head(queue[p]).id])]
    /\ queue' = [queue EXCEPT ![p] = Tail(@)]
    /\ UNCHANGED <<backend, zvars, rvars, lvars, wvars, xvars, pvars, dvars, kvars, mvars, declared, binds, routed>>

\* ------------------------------------ ZmqTransport: from peer A to peer B
\* A and B are two ZmqTransport instances; B is in A's address book with the
\* endpoint of B's ROUTER, B has a receive callback and is started. A's sends
\* are taken whole here (their steps are modelled above).

PeerA == "A"
PeerB == "B"
\* the two ways a message reaches the ROUTER (lines 16-17, 144-145)
Framings == {"ident_payload", "ident_empty_payload"}
SendKinds == {"unicast", "broadcast"}

\* str.encode("utf-8") for the peer ids in use
Utf8 == [A |-> <<65>>, B |-> <<66>>]
\* bytes.decode("utf-8", errors="ignore"), lines 148-151
Utf8Decode(bytes) ==
    IF \E id \in DOMAIN Utf8 : Utf8[id] = bytes
    THEN CHOOSE id \in DOMAIN Utf8 : Utf8[id] = bytes
    ELSE ""

\* no DEALER for B in A's _dealers
NoDealer == <<>>

\* the n-th frame A sends, as bytes
FrameBytes(n) == <<n>>

\* _new_dealer, line 125: IDENTITY is set to self._id.encode("utf-8")
DealerIdentity(self_id, peer_id) == Utf8[self_id]

\* what the ROUTER hands out for a frame of a DEALER with identity ident
Inbound(ident, framing, frame) ==
    IF framing = "ident_payload" THEN <<ident, frame>> ELSE <<ident, <<>>, frame>>

\* send("peer:B", frame) or send("broadcast:*", frame) of A, lines 82-106,
\* with B the one entry of A's address book: the DEALER for B is created on
\* the first send and reused, and the frame is written to it
ASend(kind, framing) ==
    /\ Len(a_log) <= MaxMsgs
    /\ LET n == Len(a_log) + 1
           dealer == IF a_dealers = NoDealer THEN DealerIdentity(PeerA, PeerB)
                     ELSE a_dealers
       IN /\ a_dealers' = dealer
          /\ a_log' = Append(a_log, [id |-> n, kind |-> kind, framing |-> framing])
          /\ wire' = Append(wire, Inbound(dealer, framing, FrameBytes(n)))
    /\ UNCHANGED <<backend, zvars, rvars, lvars, wvars, xvars, pvars, qvars, kvars, mvars, b_pc, b_parts,
                   b_got>>

BMove(to) ==
    /\ b_pc' = to
    /\ UNCHANGED <<backend, zvars, rvars, lvars, wvars, xvars, pvars, qvars, kvars, mvars, a_dealers, a_log>>

\* line 130: B's _stop is not set
BHead ==
    /\ b_pc = "head"
    /\ BMove("poll")
    /\ UNCHANGED <<wire, b_parts, b_got>>

\* lines 131-136: poll(100) finds the ROUTER readable or times out
BPoll ==
    /\ b_pc = "poll"
    /\ BMove(IF wire # <<>> THEN "recv" ELSE "head")
    /\ UNCHANGED <<wire, b_parts, b_got>>

\* lines 137-147: recv_multipart
BRecv ==
    /\ b_pc = "recv"
    /\ b_parts' = Head(wire)
    /\ wire' = Tail(wire)
    /\ BMove(IF Head(wire) = <<>> THEN "head" ELSE "cb")
    /\ UNCHANGED b_got

\* lines 146-155: the callback is invoked with "peer:<ident decoded>" and
\* parts[-1]; it returns, or it raises and the exception ends the thread
BCallback ==
    /\ b_pc = "cb"
    /\ b_got' = Append(b_got, [src |-> [kind |-> "peer", id |-> Utf8Decode(b_parts[1])],
                               payload |-> b_parts[Len(b_parts)]])
    /\ \E out \in {"returns", "raises"} : BMove(IF out = "returns" THEN "head" ELSE "done")
    /\ UNCHANGED <<wire, b_parts>>

BStep == BHead \/ BPoll \/ BRecv \/ BCallback

\* ----------------------------------- Libby: the factories and __init__
\* Protocol, KeyRegistry and Discovery come from the bamboo package; a call
\* into them returns, raises AttributeError (the object has no such method),
\* or fails with another exception.

RpcKeys == {"k1", "k2"}
KeyLists == {<<>>, <<"k1">>, <<"k1", "k2">>}
Outcomes == {"ok", "AttributeError", "error"}
Calls == {"Libby", "Libby.zmq", "Libby.rabbitmq", "LibbyDaemon.build_libby",
          "RabbitMQDaemon.build_libby"}
NoArgs == [keys |-> <<>>, callback |-> FALSE, discover |-> FALSE, hello_on_start |-> FALSE]
ArgSets == [keys : KeyLists, callback : BOOLEAN, discover : BOOLEAN,
            hello_on_start : BOOLEAN]
Range(f) == {f[i] : i \in DOMAIN f}

\* a call with keyword arguments kwargs binds to a signature with the
\* parameters params, of which `required` have no default; TypeError otherwise
Binds(params, required, kwargs) == kwargs \subseteq params /\ required \subseteq kwargs

\* rabbitmq_transport.py line 23: def __init__(self, peer_id, rabbitmq_url=...)
RabbitMQTransportParams == {"peer_id", "rabbitmq_url"}
\* zmq_transport.py line 21
ZmqTransportParams == {"bind_router", "address_book", "my_id", "group_id"}
\* libby.py lines 81-88
LibbyRabbitmqParams == {"self_id", "rabbitmq_url", "keys", "callback", "group_id"}
\* libby.py lines 46-58
LibbyZmqParams == {"self_id", "bind", "address_book", "keys", "callback", "discover",
                   "discover_interval_s", "hello_on_start", "group_id"}

\* libby.py line 68: ZmqTransport(bind_router=, address_book=, my_id=, group_id=)
ZmqFactoryBinds ==
    Binds(ZmqTransportParams, {"bind_router", "address_book", "my_id"},
          {"bind_router", "address_book", "my_id", "group_id"})
\* libby.py line 120: RabbitMQTransport(peer_id=, rabbitmq_url=, group_id=)
RabbitmqFactoryBinds ==
    Binds(RabbitMQTransportParams, {"peer_id"}, {"peer_id", "rabbitmq_url", "group_id"})

\* the call is made and every call on its way to Libby.__init__ binds
CallBinds(call) ==
    CASE call = "Libby" -> TRUE
      [] call = "Libby.zmq" -> ZmqFactoryBinds
      [] call = "Libby.rabbitmq" -> RabbitmqFactoryBinds
      [] call = "LibbyDaemon.build_libby" ->
             \* daemon.py lines 80-88
             /\ Binds(LibbyZmqParams, {"self_id", "bind", "address_book"},
                      {"self_id", "bind", "address_book", "keys", "callback", "discover",
                       "discover_interval_s", "hello_on_start"})
             /\ ZmqFactoryBinds
      [] call = "RabbitMQDaemon.build_libby" ->
             \* rabbitmq_daemon.py lines 40-48
             /\ Binds(LibbyRabbitmqParams, {"self_id"},
                      {"self_id", "rabbitmq_url", "keys", "callback", "discover",
                       "discover_interval_s", "hello_on_start"})
             /\ RabbitmqFactoryBinds

\* what Libby.__init__ is run with: Libby.rabbitmq passes discover=False and
\* hello_on_start=False (lines 127-129), the daemons pass keys=[],
\* callback=None and hello_on_start=True
EffectiveArgs(call, a) ==
    CASE call \in {"Libby", "Libby.zmq"} -> a
      [] call = "Libby.rabbitmq" -> [a EXCEPT !.discover = FALSE, !.hello_on_start = FALSE]
      [] call = "LibbyDaemon.build_libby" ->
             [a EXCEPT !.keys = <<>>, !.callback = FALSE, !.hello_on_start = TRUE]
      [] call = "RabbitMQDaemon.build_libby" ->
             [keys |-> <<>>, callback |-> FALSE, discover |-> FALSE,
              hello_on_start |-> FALSE]

\* an __init__ that builds the announcer before it registers the keys
AfterInit_announcefirst(keys) == "disco"
\* libby.py lines 21-29: `if keys:` leads to the serve loop, which comes
\* before the discovery block
AfterInit(keys) == IF keys # <<>> THEN "serve" ELSE "disco"

\* an __init__ that calls announce_hello whatever announce_now did
AfterAnnounceNow_both(out) == IF out = "error" THEN "raise" ELSE "announce_hello"
\* lines 36-38: announce_now() inside `try` / `except AttributeError`
AfterAnnounceNow(out) ==
    IF out = "ok" THEN "timer" ELSE IF out = "AttributeError" THEN "announce_hello" ELSE "raise"

\* lines 39-42: announce_hello() inside `try` / `except AttributeError: pass`
AfterAnnounceHello(out) == IF out = "error" THEN "raise" ELSE "timer"

\* lines 181-185: hello() catches AttributeError only
HelloResult(out) == IF out = "error" THEN "raised" ELSE "returned"

\* the keys that have a responder
Served == {k \in RpcKeys : k_served[k] # None}

KUnchanged == <<backend, zvars, rvars, lpc, llog, lres, wvars, xvars, pvars, qvars, dvars, mvars>>

\* a constructor or factory is called: the factories build and start the
\* transport (libby.py lines 68-69, 120-121) and call cls(...)
KCall(call, a) ==
    /\ k_pc = "new"
    /\ k_call' = call
    /\ IF CallBinds(call)
       THEN /\ k_transport' = IF call = "Libby" THEN "given" ELSE "started"
            /\ k_args' = EffectiveArgs(call, a)
            /\ k_pc' = AfterInit(EffectiveArgs(call, a).keys)
            /\ k_res' = k_res
       ELSE /\ k_pc' = "failed"
            /\ k_res' = "TypeError"
            /\ UNCHANGED <<k_transport, k_args>>
    /\ UNCHANGED <<KUnchanged, disco, k_served, k_log, h_res>>

\* lines 27-29: proto.serve(k, callback or a default responder), key by key
KServe ==
    /\ k_pc = "serve"
    /\ LET k == k_args.keys[Cardinality(Served) + 1] IN
          k_served' = [k_served EXCEPT ![k] = IF k_args.callback THEN "callback"
                                              ELSE "default"]
    /\ k_pc' = IF Cardinality(Served) + 1 = Len(k_args.keys) THEN "disco" ELSE "serve"
    /\ UNCHANGED <<KUnchanged, disco, k_call, k_args, k_transport, k_log, k_res, h_res>>

\* lines 32-35: the announcer is built when discovery is requested
KDisco ==
    /\ k_pc = "disco"
    /\ IF k_args.discover
       THEN /\ disco' = "built"
            /\ k_pc' = IF k_args.hello_on_start THEN "announce_now" ELSE "timer"
            /\ k_res' = k_res
       ELSE /\ disco' = disco
            /\ k_pc' = "done"
            /\ k_res' = "built"
    /\ UNCHANGED <<KUnchanged, k_call, k_args, k_transport, k_served, k_log, h_res>>

\* an exception leaves __init__: no Libby exists
KEnd(to) ==
    IF to = "raise"
    THEN k_pc' = "failed" /\ k_res' = "raised"
    ELSE k_pc' = to /\ k_res' = k_res

\* lines 36-38: self._disco.announce_now(), which announces the registry's keys
KAnnounceNow ==
    /\ k_pc = "announce_now"
    /\ \E out \in Outcomes :
          /\ k_log' = Append(k_log, [call |-> "announce_now", out |-> out, keys |-> Served])
          /\ KEnd(AfterAnnounceNow(out))
    /\ UNCHANGED <<KUnchanged, disco, k_call, k_args, k_transport, k_served, h_res>>

\* lines 39-42: self.proto.announce_hello()
KAnnounceHello ==
    /\ k_pc = "announce_hello"
    /\ \E out \in Outcomes :
          /\ k_log' = Append(k_log, [call |-> "announce_hello", out |-> out, keys |-> Served])
          /\ KEnd(AfterAnnounceHello(out))
    /\ UNCHANGED <<KUnchanged, disco, k_call, k_args, k_transport, k_served, h_res>>

\* line 43: self._disco.start(), the periodic timer
KTimer ==
    /\ k_pc = "timer"
    /\ disco' = "running"
    /\ k_log' = Append(k_log, [call |-> "disco.start", out |-> "ok", keys |-> Served])
    /\ k_pc' = "done"
    /\ k_res' = "built"
    /\ UNCHANGED <<KUnchanged, k_call, k_args, k_transport, k_served, h_res>>

\* hello(), lines 181-185, on a Libby that was built
Hello ==
    /\ k_pc = "done" /\ h_res = "none"
    /\ \E out \in Outcomes : h_res' = HelloResult(out)
    /\ UNCHANGED <<KUnchanged, disco, k_call, k_pc, k_args, k_transport, k_served, k_log,
                   k_res>>

\* ------------------------------------------------------------ LibbyDaemon
\* Two instances of LibbyDaemon and one of GroupTestPeer (peers/peer_group.py),
\* a subclass whose body binds `services` and inherits `topics`.

Daemons == {"a1", "a2", "g"}
ClassOf(d) == IF d = "g" THEN "GroupTestPeer" ELSE "LibbyDaemon"
SvcKeys == {"echo"}
Handlers == {"handle_echo", "f"}
TopicNames == {"alerts"}
EvtHandlers == {"on_alert"}
\* the classes whose body binds `services`, and `topics`
ServiceDicts == {"LibbyDaemon", "GroupTestPeer"}
TopicDicts == {"LibbyDaemon"}
\* the mappings given to add_services and add_topics
ServiceMappings == [SvcKeys -> Handlers \cup {None}]
TopicMappings == [TopicNames -> EvtHandlers \cup {None}]

\* attribute lookup on an instance that has no attribute of that name in its
\* own __dict__: the first class of the MRO whose body binds it
ServicesOwner(d) == IF ClassOf(d) \in ServiceDicts THEN ClassOf(d) ELSE "LibbyDaemon"
TopicsOwner(d) == IF ClassOf(d) \in TopicDicts THEN ClassOf(d) ELSE "LibbyDaemon"

\* self.services and self.topics as instance d reads them
ServicesOf(d) == services[ServicesOwner(d)]
TopicsOf(d) == topics[TopicsOwner(d)]

\* dict.update(mapping)
Update(dict, mapping) ==
    [k \in DOMAIN dict |-> IF mapping[k] # None THEN mapping[k] ELSE dict[k]]
KeysOf(mapping) == {k \in DOMAIN mapping : mapping[k] # None}
\* the one-entry dict {key: fn}
Single(dom, key, fn) == [k \in dom |-> IF k = key THEN fn ELSE None]

\* hasattr(self, "libby") is false until serve() has built the Libby
NoLibby == [has |-> FALSE, names |-> {}]

\* what the instance has registered with its Libby (serve_keys, listen and
\* subscribe), when it has one
Registered(d, names) ==
    IF m_reg[d] = NoLibby THEN m_reg
    ELSE [m_reg EXCEPT ![d] = [has |-> TRUE, names |-> m_reg[d].names \cup names]]

MUnchanged == <<backend, zvars, rvars, lvars, wvars, xvars, pvars, qvars, dvars, kvars>>

\* add_services(mapping), lines 45-47; add_service(key, fn), lines 41-43, is
\* the same with the one-entry mapping
add_services(d, mapping) ==
    /\ services' = [services EXCEPT ![ServicesOwner(d)] = Update(@, mapping)]
    /\ m_reg' = Registered(d, KeysOf(mapping))
    /\ UNCHANGED <<MUnchanged, topics, ad_in, ad_res>>

add_service(d, key, fn) == add_services(d, Single(SvcKeys, key, fn))

\* add_topics(mapping), lines 55-60; add_topic(topic, fn), lines 49-53
add_topics(d, mapping) ==
    /\ topics' = [topics EXCEPT ![TopicsOwner(d)] = Update(@, mapping)]
    /\ m_reg' = Registered(d, KeysOf(mapping))
    /\ UNCHANGED <<MUnchanged, services, ad_in, ad_res>>

add_topic(d, topic, fn) == add_topics(d, Single(TopicNames, topic, fn))

\* serve(), lines 90-107, with a build_libby that succeeds: self.libby is set
\* and what self.services and self.topics hold is registered
serve(d) ==
    /\ m_reg[d] = NoLibby
    /\ m_reg' = [m_reg EXCEPT ![d] = [has |-> TRUE,
                                      names |-> KeysOf(ServicesOf(d)) \cup KeysOf(TopicsOf(d))]]
    /\ UNCHANGED <<MUnchanged, services, topics, ad_in, ad_res>>

\* ---- the values a user handler returns, by what payload() tests of them
NoneValue == [kind |-> "None", json |-> TRUE]
\* json: json.dumps accepts the dict payload() makes of the value; a dataclass
\* type passes is_dataclass and is no instance
PyValues ==
    {NoneValue, [kind |-> "dataclass_type", json |-> FALSE]}
        \cup {[kind |-> k, json |-> j] : k \in {"dataclass", "Mapping", "other"}, j \in BOOLEAN}
\* SystemExit stands for the exceptions that do not derive from Exception
Exceptions == {"RuntimeError", "ValueError", "TypeError", "SystemExit"}
IsException(ex) == ex # "SystemExit"
\* the user handler raises, or returns a value
HandlerOutcomes ==
    {[raises |-> TRUE, ex |-> e, value |-> NoneValue] : e \in {"RuntimeError", "SystemExit"}}
        \cup {[raises |-> FALSE, ex |-> None, value |-> v] : v \in PyValues}

\* a dict, by how it was made of a value: {}, asdict(value), dict(value),
\* {"data": value}, or {"ok": False, "error": str(ex)}
Dict(shape, value, err) == [shape |-> shape, of |-> value, err |-> err]
NoDict == Dict("none", NoneValue, None)
Returns(out) == [raised |-> FALSE, ex |-> None, out |-> out]
Raises(ex) == [raised |-> TRUE, ex |-> ex, out |-> NoDict]
NoResult == Returns(NoDict)

\* payload(value), lines 131-149, with no **extra
payload(value) ==
    IF value.kind = "dataclass_type" THEN Raises("TypeError")
    ELSE LET out == IF value.kind = "None" THEN Dict("empty", value, None)
                    ELSE IF value.kind = "dataclass" THEN Dict("fields", value, None)
                    ELSE IF value.kind = "Mapping" THEN Dict("items", value, None)
                    ELSE Dict("data", value, None)
         IN IF value.json THEN Returns(out) ELSE Raises("ValueError")

\* the adapter with no try/except
ServiceAdapter_nocatch(h) ==
    IF h.raises THEN Raises(h.ex) ELSE payload(h.value)

\* the adapter of _service_adapter, lines 67-72, called on a payload for which
\* the user function does h: try: return self.payload(fn(user_payload))
\* except Exception as ex: return {"ok": False, "error": str(ex)}
ServiceAdapter(h) ==
    LET r == IF h.raises THEN Raises(h.ex) ELSE payload(h.value)
    IN IF r.raised /\ IsException(r.ex)
       THEN Returns(Dict("error", NoneValue, r.ex))
       ELSE r

\* the protocol calls the responder d registered for key (lines 75-77)
Respond(d, key, h) ==
    /\ m_reg[d] # NoLibby /\ key \in m_reg[d].names
    /\ ad_in' = h
    /\ ad_res' = ServiceAdapter(h)
    /\ UNCHANGED <<MUnchanged, services, topics, m_reg>>

\* ------------------------------------------------------- the specifications

\* the address books a ZmqTransport is built with
InitBooks == {b \in [PeerIds -> Endpoints \cup {None}] : b["Q"] \in {"tcp_up", "malformed"}}

InitZmq ==
    /\ bookOrder = KeysInOrder(book)
    /\ dealers = [p \in PeerIds |-> 0]
    /\ socks = <<>>
    /\ send_lock = Free
    /\ stopEv = FALSE
    /\ rx_thread = 0
    /\ router = "open"
    /\ registered = TRUE
    /\ inbox = 0
    /\ pc = [t \in Senders |-> "idle"]
    /\ loc = [t \in Senders |-> NoLoc]
    /\ last = [t \in Senders |-> NoCall]
    /\ att = [t \in Senders |-> {}]
    /\ nsent = 0
    /\ rxpc = [i \in Loops |-> "unborn"]
    /\ mpc = "idle"
    /\ mres = "none"
    /\ joined = "none"
    /\ via = FALSE
    /\ nstart = 0 /\ nstop = 0 /\ nadd = 0

InitRmq ==
    /\ r_stop = FALSE
    /\ r_rx = "none"
    /\ r_channel = "open"
    /\ r_connection = "open"
    /\ r_pc = "idle"

InitLibby ==
    /\ lpc = "idle"
    /\ llog = <<>>
    /\ lres = "none"

InitWait ==
    /\ now = 0
    /\ knownAt = IF knows THEN 0 ELSE -1
    /\ w_pc = "idle"
    /\ w_called = 0
    /\ w_deadline = 0
    /\ w_wake = 0
    /\ w_result = "none"

InitBroker ==
    /\ b_up = TRUE
    /\ b_conns = {}
    /\ link = [c \in Conns |-> "none"]
    /\ q_exists = TRUE
    /\ q_ready = {}
    /\ q_unacked = [m \in Msgs |-> 0]
    /\ q_consumers = {}
    /\ q_acked = [m \in Msgs |-> 0]
    /\ pub = {}
    /\ nloss = 0
    /\ nconn = 0

InitConsume ==
    /\ c_pc = "none"
    /\ c_conn = 0
    /\ c_buf = {}
    /\ c_cur = 0
    /\ c_cb = FALSE
    /\ c_out = "none"
    /\ handed = [m \in Msgs |-> 0]
    /\ calls = [m \in Msgs |-> 0]
    /\ acks = [m \in Msgs |-> 0]
    /\ acksLost = [m \in Msgs |-> 0]

InitPublish ==
    /\ r_lock = Free
    /\ p_link = "up"
    /\ s_pc = [t \in Senders |-> "idle"]
    /\ s_cur = [t \in Senders |-> NoFrame]
    /\ s_last = [t \in Senders |-> NoFrame]
    /\ published = {}
    /\ dropped = {}
    /\ nframe = 0

\* the transport of Self is built: its topology is declared
InitRoute ==
    /\ declared = {Self}
    /\ binds = Bindings(Self)
    /\ queue = [p \in BPeers |-> <<>>]
    /\ routed = {}
    /\ got = [p \in BPeers |-> <<>>]

\* A and B are built, B has its callback and is started, nothing was sent
InitPair ==
    /\ a_dealers = NoDealer
    /\ a_log = <<>>
    /\ wire = <<>>
    /\ b_pc = "head"
    /\ b_parts = <<>>
    /\ b_got = <<>>

\* no Libby is being built
InitBuild ==
    /\ k_call = "none"
    /\ k_pc = "new"
    /\ k_args = NoArgs
    /\ k_transport = "none"
    /\ k_served = [k \in RpcKeys |-> None]
    /\ k_log = <<>>
    /\ k_res = "none"
    /\ h_res = "none"

\* the class bodies as written: LibbyDaemon binds two empty dicts (lines 22-23),
\* GroupTestPeer binds services = {"echo": handle_echo}; no daemon serves yet
InitDaemon ==
    /\ services = [c \in ServiceDicts |->
                      [k \in SvcKeys |-> IF c = "GroupTestPeer" /\ k = "echo"
                                         THEN "handle_echo" ELSE None]]
    /\ topics = [c \in TopicDicts |-> [t \in TopicNames |-> None]]
    /\ m_reg = [d \in Daemons |-> NoLibby]
    /\ ad_in = [raises |-> FALSE, ex |-> None, value |-> NoneValue]
    /\ ad_res = NoResult

NoBroker ==
    /\ InitBroker /\ InitConsume /\ InitPublish /\ InitRoute /\ InitPair /\ InitBuild /\ InitDaemon
    /\ InitDaemon

NoWait == knows = FALSE /\ w_fn = "wait_for_key" /\ w_timeout = 0 /\ w_poll = 1 /\ InitWait

\* concurrent sends on a Direct-Address transport, with its lifecycle
Init ==
    /\ backend = "zmq"
    /\ book \in InitBooks
    /\ InitZmq /\ InitRmq /\ InitLibby /\ NoWait /\ NoBroker
    /\ disco = "none"

Next ==
    \/ \E t \in Senders : SenderStep(t)
    \/ \E p \in PeerIds, e \in Endpoints : AddPeer(p, e)

Spec == Init /\ [][Next]_vars

\* sends issued one after another: a call begins only when no other is running
NextSeq == \E t \in Senders : (\A u \in Senders \ {t} : pc[u] = "idle") /\ SenderStep(t)

SpecSeq == Init /\ [][NextSeq]_vars

\* a transport built without P in its address book: sends one after another,
\* and add_peer calls between them
InitLate == Init /\ book["P"] = None

NextLate ==
    \/ NextSeq
    \/ \E p \in PeerIds, e \in Endpoints : (\A u \in Senders : pc[u] = "idle") /\ AddPeer(p, e)

SpecLate == InitLate /\ [][NextLate]_vars

\* the lifecycle of a Peer Runtime and of the transport it owns
InitLife ==
    /\ backend \in Backends
    /\ book = [p \in PeerIds |-> IF p = "P" THEN "tcp_up" ELSE None]
    /\ InitZmq
    /\ InitRmq /\ InitLibby /\ NoWait /\ NoBroker
    /\ disco \in {"none", "running"}

NextLife ==
    \/ \E t \in {"t1"} : (\E p \in PeerIds : SendPeer(t, p)) \/ UNew(t) \/ UStore(t) \/ USend(t)
    \/ \E i \in Loops : RxStep(i)
    \/ Arrive
    \/ TransportStart \/ TransportStop \/ LibbyStart \/ LibbyStop
    \/ LibbyStopDisco \/ LibbyStopTransport
    \/ StopJoin \/ StopCloseDealers \/ StopClear \/ StopRouter
    \/ RmqDeliver \/ RmqCallbackReturns \/ RmqLoopExit \/ RmqConnectionLost
    \/ RmqStopJoin \/ RmqStopClose

SpecLife == InitLife /\ [][NextLife]_vars

WaitFns == {"wait_for_key", "wait_for_peer"}

\* one wait_for_key or wait_for_peer call
InitWaitCall ==
    /\ backend = "zmq"
    /\ book = [p \in PeerIds |-> "tcp_up"]
    /\ InitZmq /\ InitRmq /\ InitLibby /\ disco = "none" /\ NoBroker
    /\ knows \in BOOLEAN
    /\ w_fn \in WaitFns
    /\ w_timeout \in 0..MaxTimeout
    /\ w_poll \in 1..MaxPoll
    /\ InitWait

NextWait == Learn \/ WaitCall \/ WaitTest \/ WaitCheck \/ Tick \/ WaitWake

SpecWait == InitWaitCall /\ [][NextWait]_vars

\* the same call on a thread that keeps running: the interpreter schedules it,
\* and the clock advances while it sleeps
SpecWaitFair == InitWaitCall /\ [][NextWait]_vars
                  /\ WF_vars(WaitCall \/ WaitTest \/ WaitCheck \/ Tick \/ WaitWake)

\* the consume loop of one Broker transport, its broker and its owner, who
\* starts the transport once and may stop it once
InitConsumeLoop ==
    /\ backend = "rabbitmq"
    /\ book = [p \in PeerIds |-> None]
    /\ InitZmq /\ InitRmq /\ InitLibby /\ NoWait /\ disco = "none"
    /\ InitBroker /\ InitConsume /\ InitPublish /\ InitRoute /\ InitPair /\ InitBuild /\ InitDaemon

\* the transport is started and runs: stop() is not called
NextConsumeRun ==
    \/ (nstart = 0 /\ TransportStart)
    \/ OnReceive
    \/ ConsumeStep
    \/ \E m \in Msgs : Publish(m)
    \/ \E m \in Msgs, c \in Conns : Deliver(m, c)
    \/ \E c \in Conns : ConnLost(c) \/ BrokerDrops(c)
    \/ BrokerDown \/ BrokerUp

NextConsume ==
    \/ NextConsumeRun
    \/ (nstop = 0 /\ TransportStop) \/ RmqStopJoin \/ RmqStopClose

SpecConsume == InitConsumeLoop /\ [][NextConsume]_vars

\* a transport that is started and not stopped, with the loop's thread
\* scheduled, the broker sending what is ready to a consumer, and the broker
\* noticing a dead peer in the end
SpecConsumeFair ==
    /\ InitConsumeLoop /\ [][NextConsumeRun]_vars
    /\ WF_vars(ConsumeStep)
    /\ WF_vars(\E m \in Msgs, c \in Conns : Deliver(m, c))
    /\ WF_vars(\E c \in Conns : link[c] = "dead" /\ BrokerDrops(c))
\* concurrent sends on one Broker transport, its owner's stop(), and outages
\* of the broker
NextPublish ==
    \/ \E t \in Senders : SendStep(t)
    \/ TransportStop \/ RmqStopClose
    \/ BrokerDown \/ BrokerUp

SpecPublish == InitConsumeLoop /\ [][NextPublish]_vars
\* the peers of one broker: Self sends, the broker routes, every peer's
\* consume loop hands its queue to its callback
NextRoute ==
    \/ (\E d \in RouteDests : nframe <= MaxMsgs /\ SendCall("t1", d))
    \/ SendLock("t1") \/ SendPublish("t1")
    \/ \E p \in BPeers : Construct(p) \/ QueueAutoDeleted(p) \/ PeerHandles(p)
    \/ \E m \in published : BrokerRoutes(m)

SpecRoute == InitConsumeLoop /\ [][NextRoute]_vars

\* peer A sends to peer B, whose receive loop runs
InitPairRun ==
    /\ backend = "zmq"
    /\ book = [p \in PeerIds |-> None]
    /\ InitZmq /\ InitRmq /\ InitLibby /\ NoWait /\ disco = "none"
    /\ NoBroker

NextPair ==
    \/ \E kind \in SendKinds, framing \in Framings : ASend(kind, framing)
    \/ BStep

SpecPair == InitPairRun /\ [][NextPair]_vars

\* start() and stop() of a transport whose receive loop gets frames; the
\* threads are scheduled, every step of stop() and of the Direct-Address
\* loop ends (its poll is given 100 ms, its receive does not block); a receive
\* callback and an operation of the consume loop on its connection may not
NextStop ==
    \/ TransportStart \/ TransportStop
    \/ StopJoin \/ StopCloseDealers \/ StopClear \/ StopRouter
    \/ \E i \in Loops : RxStep(i)
    \/ Arrive
    \/ RmqDeliver \/ RmqCallbackReturns \/ RmqLoopExit
    \/ RmqStopJoin \/ RmqStopClose

InitStop == InitLife /\ disco = "none"

SpecStopFair ==
    /\ InitStop /\ [][NextStop]_vars
    /\ WF_vars(StopJoin) /\ WF_vars(StopCloseDealers) /\ WF_vars(StopClear)
    /\ WF_vars(StopRouter)
    /\ WF_vars(RmqStopJoin) /\ WF_vars(RmqStopClose)
    /\ \A i \in Loops : WF_vars(RxHead(i) \/ RxPoll(i) \/ RxRecv(i))

\* one Libby is built, by its constructor or a factory, and hello() is called
NextBuild ==
    \/ \E call \in Calls, a \in ArgSets : KCall(call, a)
    \/ KServe \/ KDisco \/ KAnnounceNow \/ KAnnounceHello \/ KTimer
    \/ Hello

SpecBuild == InitPairRun /\ [][NextBuild]_vars

\* daemons of two classes register services and topics, serve, and answer
\* requests with handlers that return or raise
NextDaemon ==
    \/ \E d \in Daemons, k \in SvcKeys, fn \in Handlers : add_service(d, k, fn)
    \/ \E d \in Daemons, mapping \in ServiceMappings : add_services(d, mapping)
    \/ \E d \in Daemons, t \in TopicNames, fn \in EvtHandlers : add_topic(d, t, fn)
    \/ \E d \in Daemons, mapping \in TopicMappings : add_topics(d, mapping)
    \/ \E d \in Daemons : serve(d)
    \/ \E d \in Daemons, k \in SvcKeys, h \in HandlerOutcomes : Respond(d, k, h)

SpecDaemon == InitPairRun /\ [][NextDaemon]_vars

\* ------------------------------------------------------------------ claims

AllIdle == \A t \in Senders : pc[t] = "idle"
Created(p) == {i \in 1..Len(socks) : socks[i].dest = p}

\* C1: a send("peer:"+id) for an id that is not a key of the address book
\* returns in that step without raising, leaves the connection cache and every
\* socket as they were, and transmits nothing.
C1_UnknownPeerDropped ==
    [][\A t \in Senders, p \in PeerIds :
          (SendPeer(t, p) /\ book[p] = None) =>
              /\ pc'[t] = "idle"
              /\ last'[t] = [kind |-> "peer", dest |-> p, res |-> "dropped"]
              /\ dealers' = dealers
              /\ socks' = socks
              /\ send_lock' = send_lock]_vars

\* an unknown peer's frame was dropped while connections to others exist and
\* another thread is in the middle of a send
C1_Witness ==
    \E t \in Senders, u \in Senders :
        /\ last[t].kind = "peer" /\ last[t].res = "dropped" /\ book[last[t].dest] = None
        /\ Created(last[t].dest) = {}
        /\ Len(socks) > 0
        /\ pc[u] # "idle"

\* the sends made so far that were for p: unicasts to p, and broadcasts
SendsFor(p) ==
    {t \in Senders : last[t].res # "none" /\ (last[t].kind = "broadcast" \/ last[t].dest = p)}

C3_OneLiveConnectionPerPeer ==
    \A p \in PeerIds : Cardinality(Live(p)) <= 1

\* C4: a broadcast that has ended made a send attempt for every entry of the
\* address book, also when one entry's connect or write failed.
C4_BroadcastAttemptsEveryEntry ==
    \A t \in Senders :
        (pc[t] = "idle" /\ last[t].kind = "broadcast" /\ last[t].res # "none") =>
            att[t] = {p \in PeerIds : book[p] # None}


\* C5: stop() never raises, on either transport and on the Peer Runtime,
\* whether it is called before start(), after start(), or again after a stop().
C5_StopNeverRaises == mres # "raised" /\ lres # "raised"

\* a Direct-Address transport was started and has been stopped twice: the
\* second stop() found the ROUTER unregistered and closed, and returned
C5_Witness ==
    /\ ZmqUp /\ MainIdle
    /\ nstart >= 1 /\ nstop = 2
    /\ mres = "returned"
    /\ ~registered /\ router = "closed"

\* C6: Libby.stop stops the discovery timer, when there is one, before it stops
\* the transport; it invokes the transport's stop() also when the discovery's
\* stop() raised; and it lets no error out.
C6_DiscoveryThenTransport ==
    /\ lres # "raised"
    /\ llog \in {<<>>, <<"disco.stop">>, <<"transport.stop">>,
                 <<"disco.stop", "transport.stop">>}
    /\ (llog # <<>> /\ llog[1] = "transport.stop") => disco = "none"
    /\ lres = "returned" => llog[Len(llog)] = "transport.stop"
    /\ lpc = "l_wait" => llog[Len(llog)] = "transport.stop"

\* Libby.stop has returned although the discovery's stop() raised (the timer is
\* still marked running): the transport's stop() was invoked after it
C6_Witness ==
    /\ lres = "returned" /\ lpc = "idle"
    /\ disco = "running"
    /\ llog = <<"disco.stop", "transport.stop">>
    /\ mres = "returned"

\* C7: at most one receive loop runs for a Direct-Address transport, whatever
\* start() calls were made.
C7_AtMostOneReceiveLoop == Cardinality(Running) <= 1

\* a step closes an outbound connection or the inbound socket
ClosesSocket ==
    \/ router = "open" /\ router' = "closed"
    \/ \E i \in 1..Len(socks) : socks[i].open /\ ~socks'[i].open

\* C8 as stated: whenever stop() closes a socket, the receive loop has
\* terminated, also when a callback was executing when stop() was called.
C8_LoopTerminatedBeforeClose ==
    [][(ClosesSocket /\ rx_thread # 0) => rxpc[rx_thread] = "done"]_vars

\* C8 as amended: stop() closes a socket only after its join of the latest
\* receive loop has ended: with the loop terminated, or, the join having timed
\* out on a callback that was still executing, with that loop still in the
\* callback or back at the check of the stop flag, never polling or receiving.
C8_JoinedBeforeClose ==
    [][(ClosesSocket /\ rx_thread # 0) =>
          \/ joined = "terminated" /\ rxpc[rx_thread] = "done"
          \/ joined = "timeout" /\ rxpc[rx_thread] \in {"cb", "head", "done"}]_vars

\* stop() has closed the sockets while the callback of the joined loop is
\* still executing
C8_Witness ==
    /\ ZmqUp /\ router = "closed"
    /\ joined = "timeout"
    /\ rx_thread # 0 /\ rxpc[rx_thread] = "cb"
    /\ \E i \in 1..Len(socks) : ~socks[i].open

\* a sender is inside dealer.send on a full pipe that nobody empties
Stuck(t) == pc[t] \in {"u_send", "b_send"} /\ SendBlocks(socks[loc[t].d])

\* C9: no send blocks its caller forever, and no send keeps another thread's
\* send to another destination waiting forever.
C9_SendNeverBlocksForever ==
    /\ \A t \in Senders : ~Stuck(t)
    /\ \A t \in Senders, u \in Senders :
          ~(Stuck(t) /\ pc[u] \in {"u_lock", "b_lock"})

\* C10: wait_for_key returns true exactly when knows_key became true before
\* timeout_s had elapsed since the call.
C10_TrueIffKnownBeforeTimeout ==
    w_pc = "returned" =>
        (w_result = "True" <=> (knownAt >= 0 /\ knownAt < w_called + w_timeout))

\* C11: wait_for_key and wait_for_peer terminate: the call returns a boolean,
\* no later than timeout_s plus one poll_s after it was made, for every
\* timeout_s >= 0 and poll_s > 0, and the boolean is False when the predicate
\* was never seen true by a check made before the deadline.
C11_WaitTerminatesInBound ==
    /\ [](w_pc # "idle" => now <= w_called + w_timeout + w_poll)
    /\ [](w_pc = "returned" => w_result \in {"True", "False"})
    /\ []((w_pc = "returned" /\ ~knows) => w_result = "False")
    /\ <>(w_pc = "returned")

\* a wait_for_peer call with the largest timeout and poll interval has slept
\* past its deadline and returned False, the predicate still false
C11_Witness ==
    /\ w_fn = "wait_for_peer" /\ w_pc = "returned" /\ w_result = "False"
    /\ ~knows
    /\ w_timeout = MaxTimeout /\ w_poll = MaxPoll
    /\ now >= w_deadline
\* the consume loop is inside its while loop
InLoop == c_pc \in {"poll", "cb", "ack", "teardown", "reconnect", "redeclare", "backoff"}
\* its receive connection is lost
Lost == InLoop /\ link[c_conn] # "up"
\* it holds a live connection with the queue declared and a consumer on it
Consuming ==
    /\ c_pc \in {"poll", "cb", "ack"} /\ link[c_conn] = "up"
    /\ q_exists /\ c_conn \in q_consumers
\* message_callback is handling m
InHandler(m) == c_cur = m /\ c_pc \in {"cb", "ack"}

C13_NoDuplicateProcessing == \A m \in Msgs : calls[m] <= 1

\* C14 as stated: every message handed to message_callback is acknowledged
\* exactly once, after the receive callback has ended.
C14_AcknowledgedExactlyOnce ==
    \A m \in Msgs :
        q_acked[m] = IF InHandler(m) THEN handed[m] - 1 ELSE handed[m]

\* C14 as amended: basic_ack is called exactly once for every hand-over of a
\* message to message_callback, after the receive callback has returned or
\* raised, or at once when none is registered; the broker records the
\* acknowledgement, at most one per message, unless the receive connection was
\* lost before the call.
C14_AckCalledExactlyOnce ==
    \A m \in Msgs :
        /\ acks[m] = IF InHandler(m) THEN handed[m] - 1 ELSE handed[m]
        /\ q_acked[m] = acks[m] - acksLost[m]
        /\ q_acked[m] <= 1

\* a message whose first acknowledgement was lost with the connection has been
\* redelivered, its callback raised, and this time the broker has the
\* acknowledgement
C14_Witness ==
    \E m \in Msgs :
        /\ handed[m] = 2 /\ acks[m] = 2 /\ acksLost[m] = 1 /\ q_acked[m] = 1
        /\ c_out = "raised" /\ c_pc = "poll"
\* thread t makes the open check of line 157 in this step
OpenCheck(t) == s_pc[t] = "idle" /\ (s_pc'[t] # "idle" \/ s_last'[t] # s_last[t])
\* stop() closes the publish channel and connection in this step
StopCloses == r_pc = "r_close" /\ r_pc' = "idle"

\* C15: a send made while the publish channel is not open returns in that
\* step without raising and publishes nothing, and its frame is never
\* published later, whatever sends follow.
C15_ClosedChannelDrops ==
    /\ [][\A t \in Senders :
             (OpenCheck(t) /\ r_channel # "open") =>
                 /\ s_pc'[t] = "idle"
                 /\ s_last'[t].id = nframe + 1 /\ s_last'[t].res = "dropped"
                 /\ published' = published /\ r_lock' = r_lock]_vars
    /\ [](\A m \in published : m.id \notin dropped)
    /\ [](\A t \in Senders : s_last[t].res = "dropped" => s_last[t].id \in dropped)

\* a frame was dropped at the open check after an earlier one had been
\* published, and a later send has ended too
C15_Witness ==
    /\ \A t \in Senders : s_pc[t] = "idle"
    /\ published # {}
    /\ \E t \in Senders, u \in Senders :
          /\ s_last[t].res = "dropped" /\ s_last[u].res = "dropped"
          /\ s_last[u].id > s_last[t].id

\* C16: no send raises during an outage of the broker, and a send made while
\* the broker is reachable (again), on a transport that was not stopped, has
\* its frame published.
C16_PublishingResumes ==
    \A t \in Senders :
        /\ (s_last[t].res # "none" /\ s_last[t].up) => s_last[t].res = "published"
        /\ nstop = 0 => s_last[t].res # "raised"

\* C19: while a thread is inside basic_publish, no other thread makes the open
\* check and stop() does not close the publish channel and connection.
C19_PublishConnectionExclusive ==
    [][\A t \in Senders :
          s_pc[t] = "s_pub" =>
              /\ ~StopCloses
              /\ \A u \in Senders \ {t} : ~OpenCheck(u)]_vars
\* the broker routes message m in this step
Routes(m) == m.id \notin routed /\ m.id \in routed'
\* the invocations of p's callback for message m
GotFor(p, m) == {i \in 1..Len(got[p]) : got[p][i].id = m.id}

\* C17: a frame sent by Self to "peer:<Y>" is published to the direct exchange
\* with routing key Y and the frame as body; the broker puts it into the queue
\* of Y when Y's topology is declared and into no other queue; a callback is
\* invoked for it at most once, only at peer Y, with source "peer:<Self>" and
\* the frame as payload.
C17_DirectToAddresseeOnly ==
    /\ [](\A t \in Senders :
            (s_last[t].res = "published" /\ s_last[t].dest.kind = "peer") =>
                [id |-> s_last[t].id, exchange |-> "libby.direct",
                 key |-> s_last[t].dest.id, app_id |-> Self, body |-> s_last[t].id]
                    \in published)
    /\ [][\A m \in published :
             (Routes(m) /\ m.exchange = "libby.direct") =>
                 \A p \in BPeers :
                     queue'[p] = IF p = m.key /\ p \in declared
                                 THEN Append(queue[p], m) ELSE queue[p]]_vars
    /\ [](\A m \in published, p \in BPeers :
            m.exchange = "libby.direct" =>
                /\ Cardinality(GotFor(p, m)) <= 1
                /\ GotFor(p, m) # {} => p = m.key
                /\ \A i \in GotFor(p, m) :
                      /\ got[p][i].src = [kind |-> "peer", id |-> Self]
                      /\ got[p][i].payload = m.body)

\* the callback of Y has been invoked for a frame Self sent to "peer:Y", and
\* nothing waits in a queue
C17_Witness ==
    /\ \A p \in BPeers : queue[p] = <<>>
    /\ \E m \in published :
          /\ m.exchange = "libby.direct" /\ m.key = "Y" /\ m.id \in routed
          /\ GotFor("Y", m) # {} /\ GotFor(Self, m) = {}

\* C18: every declared peer has one queue, bound to the direct exchange with
\* its own id as routing key and to the fanout exchange, and a frame sent to
\* "broadcast:*" is put once into the queue of every declared peer, the
\* sender's included.
C18_BroadcastReachesEveryQueue ==
    /\ [](\A p \in BPeers :
            {b \in binds : b.queue = p} =
                IF p \in declared
                THEN {[queue |-> p, exchange |-> "libby.direct", key |-> p],
                      [queue |-> p, exchange |-> "libby.fanout", key |-> ""]}
                ELSE {})
    /\ [][\A m \in published :
             (Routes(m) /\ m.exchange = "libby.fanout") =>
                 \A p \in BPeers :
                     queue'[p] = IF p \in declared
                                 THEN Append(queue[p], m) ELSE queue[p]]_vars

\* a broadcast of Self has reached the callback of Y and its own
C18_Witness ==
    \E m \in published :
        /\ m.exchange = "libby.fanout"
        /\ Cardinality(GotFor("Y", m)) = 1 /\ Cardinality(GotFor(Self, m)) = 1
\* the invocations of B's callback for the n-th frame of A
BGotFor(n) == {j \in 1..Len(b_got) : b_got[j].payload = FrameBytes(n)}
\* the n-th frame of A waits at B's ROUTER
AtRouter(n) == \E k \in 1..Len(wire) : wire[k][Len(wire[k])] = FrameBytes(n)

\* what holds of every invocation: at most one per frame, with source
\* "peer:A" and the last part as payload, in either framing
AtMostOnceFromA ==
    \A i \in 1..Len(a_log) :
        /\ Cardinality(BGotFor(i)) <= 1
        /\ \A j \in BGotFor(i) : b_got[j].src = [kind |-> "peer", id |-> PeerA]

\* C20: for every frame A has sent to B, by unicast or broadcast and in either
\* framing, B's callback is invoked exactly once, with source "peer:A" and the
\* frame as payload: never more than once, never with another source, and the
\* frame never stays at B's ROUTER with no receive loop left to take it.
C20_InvokedExactlyOnce ==
    /\ AtMostOnceFromA
    /\ \A i \in 1..Len(a_log) : ~(AtRouter(i) /\ b_pc = "done")

\* the receive loops of the Direct-Address transport that are inside the
\* receive callback
InCallback == {i \in Loops : rxpc[i] = "cb"}

\* C21: at no time are two invocations of the receive callback of one
\* transport instance in progress, whatever start() and stop() calls came
\* before: at most one receive loop of the Direct-Address transport is inside
\* the callback, and the Broker transport has one consume loop at most.
C21_OneCallbackAtATime ==
    /\ Cardinality(InCallback) <= 1
    /\ r_rx \in {"none", "loop", "cb", "done"}

\* C22: a broadcast that overlaps an add_peer of another thread never raises:
\* the step of the broadcast that takes the next entry of the address book
\* (the one step of send that reads the book while add_peer may write it)
\* never ends the call with an exception, so that every entry that was in
\* the book before the add_peer gets its send attempt.
C22_BroadcastSafeUnderAddPeer ==
    [][\A t \in Senders : pc[t] = "b_next" => last'[t].res # "raised"]_vars

\* thread t writes a frame to a DEALER in this step
Writes(t) ==
    \/ pc[t] = "u_send" /\ pc'[t] = "idle" /\ last'[t].res = "sent"
    \/ pc[t] = "b_send" /\ pc'[t] = "b_next"

\* C23: once add_peer(P, E2) has returned, every later send to P, unicast or
\* broadcast, goes over a connection to E2: each write of a send goes to a
\* DEALER connected to the endpoint the address book holds for that peer.
C23_SendsFollowTheBook ==
    [][\A t \in Senders : Writes(t) => socks[loc[t].d].ep = book[loc[t].p]]_vars

\* a unicast of thread t to P ends in this step as `res`
EndsAs(t, res) ==
    /\ last'[t].kind = "peer" /\ last'[t].dest = "P"
    /\ last[t].res # res /\ last'[t].res = res

Announcements == {i \in 1..Len(k_log) : k_log[i].call \in {"announce_now", "announce_hello"}}
\* the announcements that went out
Fired == {i \in Announcements : k_log[i].out = "ok"}
TimerStarts == {i \in 1..Len(k_log) : k_log[i].call = "disco.start"}

\* C25: hello() never propagates an error, whatever announce_hello does, and
\* building a Libby with discovery requested never fails because the
\* immediate announcement failed.
C25_AnnouncementFailuresSwallowed ==
    /\ h_res # "raised"
    /\ k_res # "raised"

\* C26: every announcement __init__ makes, and the start of the periodic
\* timer, comes after proto.serve was called for every key of the initial
\* list, with the callback supplied or else a default responder: each covers
\* all the initial keys.
C26_KeysServedBeforeAnnouncing ==
    /\ \A i \in 1..Len(k_log) : k_log[i].keys = Range(k_args.keys)
    /\ k_pc \notin {"new", "serve", "failed"} =>
          \A k \in RpcKeys :
              k_served[k] = IF k \notin Range(k_args.keys) THEN None
                            ELSE IF k_args.callback THEN "callback" ELSE "default"

\* a Libby given two keys and no callback has announced both
C26_Witness ==
    /\ k_pc = "done" /\ Len(k_args.keys) = 2 /\ ~k_args.callback
    /\ Len(k_log) = 2 /\ k_log[1].call = "announce_now" /\ k_log[1].out = "ok"
    /\ k_log[1].keys = {"k1", "k2"}

\* C27 as stated: a Libby built with discovery requested has fired exactly one
\* immediate announcement and started the timer after it; one built without
\* has no announcer and no timer.
C27_OneAnnouncementThenTimer ==
    k_pc = "done" =>
        IF k_args.discover
        THEN /\ Cardinality(Fired) = 1
             /\ TimerStarts = {Len(k_log)} /\ disco = "running"
        ELSE k_log = <<>> /\ disco = "none"

\* C27, amended: with discovery requested and hello_on_start set, announce_now
\* is called once, announce_hello once when and only when announce_now raised
\* AttributeError, so at most one announcement goes out; with hello_on_start
\* unset none is made; the timer is started once, after these calls, and never
\* when one of them failed otherwise; without discovery nothing is built.
C27_AtMostOneAnnouncementThenTimer ==
    /\ Cardinality(Fired) <= 1
    /\ \A i \in Announcements, j \in TimerStarts : i < j
    /\ Announcements # {} =>
          /\ k_args.discover /\ k_args.hello_on_start
          /\ k_log[1].call = "announce_now"
          /\ \A i \in Announcements \ {1} :
                i = 2 /\ k_log[2].call = "announce_hello" /\ k_log[1].out = "AttributeError"
    /\ k_pc = "failed" => TimerStarts = {} /\ disco # "running"
    /\ k_pc = "done" =>
          IF k_args.discover
          THEN /\ TimerStarts = {Len(k_log)} /\ disco = "running"
               /\ (Announcements # {}) = k_args.hello_on_start
               /\ (2 \in Announcements) = (k_args.hello_on_start
                                             /\ k_log[1].out = "AttributeError")
          ELSE k_log = <<>> /\ disco = "none"

\* the announcer lacks announce_now, the protocol's announce_hello went out,
\* and the timer runs
C27_Witness ==
    /\ k_pc = "done" /\ disco = "running" /\ Len(k_log) = 3
    /\ k_log[1].call = "announce_now" /\ k_log[1].out = "AttributeError"
    /\ k_log[2].call = "announce_hello" /\ k_log[2].out = "ok"
    /\ k_log[3].call = "disco.start"

\* C30: Libby.rabbitmq, and RabbitMQDaemon.build_libby through it, return a
\* Libby whose Broker transport is constructed and started: the call does not
\* end in an error.
C30_BrokerFactoryBuilds ==
    k_call \in {"Libby.rabbitmq", "RabbitMQDaemon.build_libby"} => k_pc # "failed"

\* C29: every start() of the Broker transport, the first, one on a running
\* transport and one issued after stop() has returned, leaves the transport
\* with its one consume loop running: the thread is alive and the stop flag
\* it tests at every turn is clear.
C29_StartLeavesLoopRunning ==
    [][(RmqUp /\ nstart' = nstart + 1) => (r_rx' \in {"loop", "cb"} /\ ~r_stop')]_vars

\* C28: a stop() that was begun returns, on both transports, also when the
\* receive loop stays inside a callback for ever: the join ends by its
\* timeout, and when stop() returns the sockets of the Direct-Address
\* transport, or the publish channel and connection of the Broker transport,
\* are released.
C28_StopReturns ==
    /\ (mpc # "idle") ~> (mpc = "idle")
    /\ (r_pc # "idle") ~> (r_pc = "idle")
    /\ [][(mpc # "idle" /\ mpc' = "idle") =>
             (router' = "closed" /\ \A i \in 1..Len(socks) : i \in Cached => ~socks'[i].open)]_vars
    /\ [][(r_pc # "idle" /\ r_pc' = "idle") =>
             (r_channel' = "closed" /\ r_connection' = "closed")]_vars

\* the Broker transport's stop() has returned after its join timed out: the
\* publish connection is closed and the consume loop is still in the callback
C28_Witness ==
    /\ RmqUp /\ r_pc = "idle" /\ nstop = 1
    /\ joined = "timeout" /\ r_rx = "cb"
    /\ r_connection = "closed"

\* stop() was called and has returned, and start() was not called since
Stopped == stopEv /\ mpc = "idle" /\ nstop > 0

C32_RaisingCallbackKeepsLoop == ~stopEv => b_pc # "done"

\* C33: while the Broker transport is started and stop() has not been called,
\* its consume loop never terminates: a failure of the first connect, of the
\* topology declaration or of basic_consume is retried like a connection loss,
\* so the loop is never on its way out nor over.
C33_ConsumeLoopNeverEnds ==
    (nstart > 0 /\ ~r_stop) => (r_rx # "done" /\ c_pc \notin {"finally", "done"})

\* a responder has been called
Responded == ad_res # NoResult
\* json.dumps accepts the value the handler returned, as it is
JsonSerializable(v) == v.kind \in {"None", "Mapping", "other"} /\ v.json
\* the three shapes the claim names
NormalizedShape(v) ==
    IF v.kind = "None" THEN "empty" ELSE IF v.kind = "Mapping" THEN "items" ELSE "data"

\* C34 as stated: the responder registered for a service never raises; it
\* returns the handler's result as {} for None, a copy for a mapping and
\* {"data": value} for every other value, and {"ok": False, "error": ...} when
\* the handler raises or its result is not JSON-serializable.
C34_ResponderNeverRaises ==
    Responded =>
        /\ ~ad_res.raised
        /\ IF ad_in.raises \/ ~JsonSerializable(ad_in.value)
           THEN ad_res.out.shape = "error"
           ELSE ad_res.out = Dict(NormalizedShape(ad_in.value), ad_in.value, None)

\* C34 as amended: the responder raises only what the handler raised outside
\* Exception; else it returns {} for None, the fields of a dataclass instance,
\* a copy of a mapping and {"data": value} for another value, when json.dumps
\* accepts that dict, and {"ok": False, "error": ...} when the handler raised
\* an Exception or json.dumps (or asdict) rejects the result.
C34_ResponderCatchesExceptions ==
    Responded =>
        /\ ad_res.raised <=> (ad_in.raises /\ ad_in.ex = "SystemExit")
        /\ ad_res.raised => ad_res.ex = ad_in.ex
        /\ ~ad_res.raised =>
              IF ad_in.raises \/ ~ad_in.value.json
              THEN ad_res.out.shape = "error" /\ ad_res.out.err # None
              ELSE /\ ad_res.out.of = ad_in.value /\ ad_res.out.err = None
                   /\ ad_res.out.shape =
                         (IF ad_in.value.kind = "dataclass" THEN "fields"
                          ELSE NormalizedShape(ad_in.value))

\* a handler returned a dataclass instance and the responder returned its
\* fields
C34_Witness ==
    /\ ~ad_in.raises /\ ad_in.value = [kind |-> "dataclass", json |-> TRUE]
    /\ ad_res = Returns(Dict("fields", ad_in.value, None))

\* an add_service, add_services, add_topic or add_topics call on daemon d
AddOn(d) ==
    \/ \E k \in SvcKeys, fn \in Handlers : add_service(d, k, fn)
    \/ \E mapping \in ServiceMappings : add_services(d, mapping)
    \/ \E t \in TopicNames, fn \in EvtHandlers : add_topic(d, t, fn)
    \/ \E mapping \in TopicMappings : add_topics(d, mapping)

\* C35: a registration on one daemon instance leaves the services and the
\* topics of every other daemon instance, of its class or of another, as
\* they were.
C35_RegistrationPerInstance ==
    [][\A d \in Daemons :
          AddOn(d) => \A e \in Daemons \ {d} :
                         /\ ServicesOf(e)' = ServicesOf(e)
                         /\ TopicsOf(e)' = TopicsOf(e)]_vars

====
